---- MODULE Spec2Model ----
(***************************************************************************)
(* A model of the tree-walking interpreter (src/interpreter.py) and of the *)
(* HTTP session wrapper that drives it (src/main.py).                      *)
(*                                                                         *)
(* Programs are given as ASTs built from the node classes of src/nodes.py. *)
(* Every node is on source line 1 (the programs are one-line sources).     *)
(* Numbers are Python floats with integral values, modelled as integers.   *)
(* The Python heap is modelled explicitly for variable cells: a cell is    *)
(* the dict {'value': v, 'deleted': b}; self.variables maps a name to the  *)
(* address of its cell, so that dict.copy() shares cells as Python does.   *)
(*                                                                         *)
(* Spec is the session wrapper serving requests, each evaluated as a       *)
(* whole.  ThreadSpec is one evaluation at the grain of its threads: the   *)
(* pool worker of a parallel statement (src/interpreter.py) and the        *)
(* threads of ParallelExecutor.execute_parallel (src/concurrency.py).      *)
(* LexSpec is the Lexer of src/lexer.py reading a source text token by     *)
(* token, ParseSpec the Parser of src/parser.py, with the Lexer of that    *)
(* file, parsing a source text.                                            *)
(***************************************************************************)
EXTENDS Integers, Sequences, FiniteSets, TLC

\* ------------------------------------------------------------------ bounds
\* Loop iterations / call depth explored before an evaluation is declared
\* non-returning ("fuel").
MaxFuel == 5
\* Number of requests (run + submit_input) the host sends.
MaxRequests == 3

\* ------------------------------------------------------------------ values
FloatV(n) == [t |-> "float", v |-> n]
IntV(n) == [t |-> "int", v |-> n]
BoolV(b) == [t |-> "bool", v |-> b]
StrV(s) == [t |-> "str", v |-> s]
NoneV == [t |-> "none"]
ListV(elems) == [t |-> "list", v |-> elems]
\* StructInstance(struct_name, fields): fields is an insertion-ordered dict,
\* modelled by the sequence of its keys and the sequence of its values.
\* id is the object identity.
StructInstance(id, struct_name, names, vals) ==
    [t |-> "struct", id |-> id, struct_name |-> struct_name, names |-> names, vals |-> vals]
\* The closure lambda_func: it closes over self and node only.  captured is
\* an observation (not program state): the variables as they were when the
\* LambdaNode was evaluated.
LambdaV(id, params, body, captured) ==
    [t |-> "lambda", id |-> id, params |-> params, body |-> body, captured |-> captured]

\* isinstance(v, (int, float)): bool is a subclass of int.
IsNumber(v) == v.t \in {"float", "int", "bool"}
IsBool(v) == v.t = "bool"
IsStr(v) == v.t = "str"
NumOf(v) == IF v.t = "bool" THEN (IF v.v THEN 1 ELSE 0) ELSE v.v
\* Result type of Python arithmetic on two numbers.
NumV(a, b, n) == IF a.t = "float" \/ b.t = "float" THEN FloatV(n) ELSE IntV(n)

\* Python truthiness (used by ForNode's "while self.evaluate(cond)").
Truthy(v) ==
    CASE v.t = "bool" -> v.v
      [] v.t \in {"float", "int"} -> v.v # 0
      [] v.t = "str" -> v.v # ""
      [] v.t = "none" -> FALSE
      [] v.t = "list" -> v.v # <<>>
      [] OTHER -> TRUE

Digit(d) ==
    CASE d = 0 -> "0" [] d = 1 -> "1" [] d = 2 -> "2" [] d = 3 -> "3" [] d = 4 -> "4"
      [] d = 5 -> "5" [] d = 6 -> "6" [] d = 7 -> "7" [] d = 8 -> "8" [] d = 9 -> "9"

RECURSIVE NatStr(_)
NatStr(n) == IF n < 10 THEN Digit(n) ELSE NatStr(n \div 10) \o Digit(n % 10)

\* str(int)
IntStr(n) == IF n < 0 THEN "-" \o NatStr(0 - n) ELSE NatStr(n)
\* str(float) for an integral float: "3.0"
FloatStr(n) == IntStr(n) \o ".0"

RECURSIVE Repr(_)
RECURSIVE ReprList(_)
ReprList(elems) ==
    IF elems = <<>> THEN ""
    ELSE IF Len(elems) = 1 THEN Repr(elems[1])
    ELSE Repr(elems[1]) \o ", " \o ReprList(Tail(elems))

\* repr(value), as used by str(list) for the elements
Repr(v) ==
    CASE v.t = "float" -> FloatStr(v.v)
      [] v.t = "int" -> IntStr(v.v)
      [] v.t = "bool" -> IF v.v THEN "True" ELSE "False"
      [] v.t = "str" -> "'" \o v.v \o "'"
      [] v.t = "none" -> "None"
      [] v.t = "list" -> "[" \o ReprList(v.v) \o "]"
      [] v.t = "struct" -> "<structs.StructInstance object>"
      [] v.t = "lambda" -> "<function lambda_func>"

\* str(value)
Str(v) == IF v.t = "str" THEN v.v ELSE Repr(v)

\* float(s) for the strings the host supplies: the decimal numerals of
\* 0..MaxNumeral parse, everything else raises ValueError.
MaxNumeral == 9
IsNumeral(s) == \E n \in 0..MaxNumeral : NatStr(n) = s
ParseFloat(s) == CHOOSE n \in 0..MaxNumeral : NatStr(n) = s

RECURSIVE PyEq(_, _)
RECURSIVE PyEqList(_, _)
PyEqList(a, b) ==
    IF Len(a) # Len(b) THEN FALSE
    ELSE IF a = <<>> THEN TRUE
    ELSE PyEq(a[1], b[1]) /\ PyEqList(Tail(a), Tail(b))

\* left == right in Python.  StructInstance and functions define no __eq__,
\* so they compare by identity.
PyEq(a, b) ==
    CASE IsNumber(a) /\ IsNumber(b) -> NumOf(a) = NumOf(b)
      [] a.t = "str" /\ b.t = "str" -> a.v = b.v
      [] a.t = "none" /\ b.t = "none" -> TRUE
      [] a.t = "list" /\ b.t = "list" -> PyEqList(a.v, b.v)
      [] a.t = "struct" /\ b.t = "struct" -> a.id = b.id
      [] a.t = "lambda" /\ b.t = "lambda" -> a.id = b.id
      [] OTHER -> FALSE

\* ------------------------------------------------------------------ AST
NumberNode(value) == [k |-> "NumberNode", value |-> value, line |-> 1]
StringNode(value) == [k |-> "StringNode", value |-> value, line |-> 1]
BoolNode(value) == [k |-> "BoolNode", value |-> value, line |-> 1]
NullNode == [k |-> "NullNode", line |-> 1]
VarNode(name) == [k |-> "VarNode", name |-> name, line |-> 1]
BinOpNode(op, left, right) == [k |-> "BinOpNode", op |-> op, left |-> left, right |-> right, line |-> 1]
UnaryOpNode(op, operand) == [k |-> "UnaryOpNode", op |-> op, operand |-> operand, line |-> 1]
LogicalNode(op, left, right) == [k |-> "LogicalNode", op |-> op, left |-> left, right |-> right, line |-> 1]
CompareNode(op, left, right) == [k |-> "CompareNode", op |-> op, left |-> left, right |-> right, line |-> 1]
AssignNode(name, value) == [k |-> "AssignNode", name |-> name, value |-> value, line |-> 1]
IfNode(condition, then_block, else_block) ==
    [k |-> "IfNode", condition |-> condition, then_block |-> then_block, else_block |-> else_block, line |-> 1]
ForNode(init, condition, update, body) ==
    [k |-> "ForNode", init |-> init, condition |-> condition, update |-> update, body |-> body, line |-> 1]
WhileNode(condition, body) == [k |-> "WhileNode", condition |-> condition, body |-> body, line |-> 1]
BlockNode(statements) == [k |-> "BlockNode", statements |-> statements, line |-> 1]
\* fname is the dotted name split at '.': <<"f">> for f(...), <<"p", "m">>
\* for p.m(...).
FunctionCallNode(fname, args) == [k |-> "FunctionCallNode", fname |-> fname, args |-> args, line |-> 1]
LambdaNode(params, body) == [k |-> "LambdaNode", params |-> params, body |-> body, line |-> 1]
ArrayNode(elements) == [k |-> "ArrayNode", elements |-> elements, line |-> 1]
StructInitNode(struct_name, args) == [k |-> "StructInitNode", struct_name |-> struct_name, args |-> args, line |-> 1]
FieldAccessNode(obj_name, field) == [k |-> "FieldAccessNode", obj_name |-> obj_name, field |-> field, line |-> 1]
PrintNode(expr) == [k |-> "PrintNode", expr |-> expr, line |-> 1]
DeleteNode(var_name) == [k |-> "DeleteNode", var_name |-> var_name, line |-> 1]
ParallelNode(block) == [k |-> "ParallelNode", block |-> block, line |-> 1]
InputNode == [k |-> "InputNode", line |-> 1]
\* has_expr = FALSE models ReturnNode(expr = None)
ReturnNode(has_expr, expr) == [k |-> "ReturnNode", has_expr |-> has_expr, expr |-> expr, line |-> 1]
\* Node classes used by Interpreter.evaluate for definitions evaluated at
\* run time.
FunctionDefNode(fname, params, body) ==
    [k |-> "FunctionDefNode", fname |-> fname, params |-> params, body |-> body, line |-> 1]
StructDefNode(struct_name, fields) ==
    [k |-> "StructDefNode", struct_name |-> struct_name, fields |-> fields, line |-> 1]

Function(params, body) == [params |-> params, body |-> body]
StructDef(fields) == [fields |-> fields]

\* -------------------------------------------------------- interpreter state
\* Interpreter.__init__.  variables maps a name to the address (index into
\* heap) of its cell.  input_value is <<>> for None and <<s>> for a staged
\* string.  next_id numbers the StructInstance / function objects created.
\* log is an observation of the evaluation (see LogCall, LogBlock and
\* LogRead), not interpreter state.  result,
\* vals, exc, msg and line carry the outcome of the evaluation in progress:
\* the value returned, or the exception raised ("error" for Exception,
\* "input" for InputRequired, "fuel" when MaxFuel is exhausted).  depth is
\* the number of function, method and lambda bodies the evaluation is in.
NewInterpreter ==
    [variables |-> <<>>, heap |-> <<>>, functions |-> <<>>, structs |-> <<>>,
     printed_values |-> <<>>, input_value |-> <<>>, next_id |-> 1, log |-> <<>>,
     result |-> NoneV, vals |-> <<>>, exc |-> "none", msg |-> "", line |-> 0, depth |-> 0]

\* Interpreter.set_input
set_input(st, value) == [st EXCEPT !.input_value = <<value>>]

Ret(st, v) == [st EXCEPT !.result = v]
Raise(st, msg) == [st EXCEPT !.exc = "error", !.msg = msg, !.result = NoneV]
RaiseInputRequired(st, line) ==
    [st EXCEPT !.exc = "input", !.msg = "Input required", !.line = line, !.result = NoneV]
OutOfFuel(st) == [st EXCEPT !.exc = "fuel", !.result = NoneV]
AtLine(node) == " at line " \o IntStr(node.line)

\* The variables as a program can observe them: name -> cell contents.
View(st) == [n \in DOMAIN st.variables |-> st.heap[st.variables[n]]]

\* self.variables[name] = {'value': value, 'deleted': False}: a new cell.
SetVariable(st, name, value) ==
    LET a == Len(st.heap) + 1
    IN [st EXCEPT !.heap = Append(@, [value |-> value, deleted |-> FALSE]),
                  !.variables = (name :> a) @@ @]

\* self.variables[var_name]['deleted'] = True: the cell is changed in place.
MarkDeleted(st, name) == [st EXCEPT !.heap[st.variables[name]].deleted = TRUE]

RECURSIVE Pow(_, _)
Pow(a, b) == IF b = 0 THEN 1 ELSE a * Pow(a, b - 1)

OpSymbol(op) ==
    CASE op = "PLUS" -> "+" [] op = "MINUS" -> "-" [] op = "MULTIPLY" -> "*"
      [] op = "DIVIDE" -> "/" [] op = "EXPONENTIATION" -> "^" [] op = "MODULUS" -> "%"
      [] op = "LESS" -> "<" [] op = "GREATER" -> ">" [] op = "LESS_EQUAL" -> "<="
      [] op = "GREATER_EQUAL" -> ">=" [] op = "AND" -> "AND" [] op = "OR" -> "OR"
      [] op = "NOT" -> "NOT"

TypeMismatch(st, node) ==
    Raise(st, "Type mismatch in '" \o OpSymbol(node.op) \o "' operation" \o AtLine(node))

\* BinOpNode, after both operands are evaluated.  Quotients are exact and
\* exponents and divisors non-negative in the programs explored.
BinOp(node, l, r, st) ==
    CASE node.op = "PLUS" ->
           IF IsNumber(l) /\ IsNumber(r) THEN Ret(st, NumV(l, r, NumOf(l) + NumOf(r)))
           ELSE IF IsStr(l) /\ IsStr(r) THEN Ret(st, StrV(l.v \o r.v))
           ELSE TypeMismatch(st, node)
      [] node.op = "MINUS" ->
           IF IsNumber(l) /\ IsNumber(r) THEN Ret(st, NumV(l, r, NumOf(l) - NumOf(r)))
           ELSE TypeMismatch(st, node)
      [] node.op = "MULTIPLY" ->
           IF IsNumber(l) /\ IsNumber(r) THEN Ret(st, NumV(l, r, NumOf(l) * NumOf(r)))
           ELSE TypeMismatch(st, node)
      [] node.op = "DIVIDE" ->
           IF IsNumber(l) /\ IsNumber(r)
           THEN IF NumOf(r) = 0 THEN Raise(st, "Division by zero" \o AtLine(node))
                ELSE Ret(st, FloatV(NumOf(l) \div NumOf(r)))
           ELSE TypeMismatch(st, node)
      [] node.op = "EXPONENTIATION" ->
           IF IsNumber(l) /\ IsNumber(r) THEN Ret(st, NumV(l, r, Pow(NumOf(l), NumOf(r))))
           ELSE TypeMismatch(st, node)
      [] node.op = "MODULUS" ->
           IF IsNumber(l) /\ IsNumber(r)
           THEN IF NumOf(r) = 0 THEN Raise(st, "Modulus by zero" \o AtLine(node))
                ELSE Ret(st, NumV(l, r, NumOf(l) % NumOf(r)))
           ELSE TypeMismatch(st, node)
      \* an unknown op falls out of the if/elif chain to the final raise
      [] OTHER -> Raise(st, "Unknown node type BinOpNode" \o AtLine(node))

\* UnaryOpNode, after the operand is evaluated.
UnaryOp(node, operand, st) ==
    CASE node.op = "PLUS" ->
           IF IsNumber(operand) THEN Ret(st, IF operand.t = "float" THEN operand ELSE IntV(NumOf(operand)))
           ELSE Raise(st, "Type mismatch in unary '+' operation" \o AtLine(node))
      [] node.op = "MINUS" ->
           IF IsNumber(operand)
           THEN Ret(st, IF operand.t = "float" THEN FloatV(0 - operand.v) ELSE IntV(0 - NumOf(operand)))
           ELSE Raise(st, "Type mismatch in unary '-' operation" \o AtLine(node))
      [] node.op = "NOT" ->
           IF IsBool(operand) THEN Ret(st, BoolV(~operand.v))
           ELSE TypeMismatch(st, node)
      [] OTHER -> Raise(st, "Unknown node type UnaryOpNode" \o AtLine(node))

\* LogicalNode, after both operands are evaluated.
Logical(node, l, r, st) ==
    CASE node.op = "AND" ->
           IF IsBool(l) /\ IsBool(r) THEN Ret(st, BoolV(l.v /\ r.v)) ELSE TypeMismatch(st, node)
      [] node.op = "OR" ->
           IF IsBool(l) /\ IsBool(r) THEN Ret(st, BoolV(l.v \/ r.v)) ELSE TypeMismatch(st, node)
      [] OTHER -> Raise(st, "Unknown node type LogicalNode" \o AtLine(node))

\* CompareNode, after both operands are evaluated.
Compare(node, l, r, st) ==
    CASE node.op = "EQUAL" -> Ret(st, BoolV(PyEq(l, r)))
      [] node.op = "NOT_EQUAL" -> Ret(st, BoolV(~PyEq(l, r)))
      [] node.op = "LESS" ->
           IF IsNumber(l) /\ IsNumber(r) THEN Ret(st, BoolV(NumOf(l) < NumOf(r))) ELSE TypeMismatch(st, node)
      [] node.op = "GREATER" ->
           IF IsNumber(l) /\ IsNumber(r) THEN Ret(st, BoolV(NumOf(l) > NumOf(r))) ELSE TypeMismatch(st, node)
      [] node.op = "LESS_EQUAL" ->
           IF IsNumber(l) /\ IsNumber(r) THEN Ret(st, BoolV(NumOf(l) <= NumOf(r))) ELSE TypeMismatch(st, node)
      [] node.op = "GREATER_EQUAL" ->
           IF IsNumber(l) /\ IsNumber(r) THEN Ret(st, BoolV(NumOf(l) >= NumOf(r))) ELSE TypeMismatch(st, node)
      [] OTHER -> Raise(st, "Unknown node type CompareNode" \o AtLine(node))

\* ------------------------------------------------------------ call frames
\* saved_vars = self.variables.copy(): a shallow copy, the cells are shared.
SaveVars(st) == st.variables

\* for param, arg in zip(params, args): self.variables[param] = {...}
RECURSIVE BindParams(_, _, _)
BindParams(st, params, args) ==
    IF params = <<>> \/ args = <<>> THEN st
    ELSE BindParams(SetVariable(st, params[1], args[1]), Tail(params), Tail(args))

\* A call that forgets "self.variables = saved_vars".
RestoreVars_Skipped(st, saved) == st

\* self.variables = saved_vars
RestoreVars(st, saved) == [st EXCEPT !.variables = saved]

\* Observation of one call: the variables when saved_vars was taken
\* (before), when the body started (seen), when the body ended (body_end)
\* and when the call was left (after), and how it was left: "none"
\* (returned), "error" or "input".
LogCall(st, kind, params, before, seen, body_end, captured, exit) ==
    [st EXCEPT !.log = Append(@, [ev |-> "call", kind |-> kind, params |-> params,
                                  before |-> before, seen |-> seen, after |-> View(st),
                                  body_end |-> body_end,
                                  captured |-> captured, exit |-> exit])]

\* Observation of one evaluation of a BlockNode: the number of statements
\* of the block, the number of them that were evaluated, whether the last
\* one evaluated was a return statement, and how the block was left.
LogBlock(st, stmts, executed, exit) ==
    [st EXCEPT !.log = Append(@, [ev |-> "block", stmts |-> Len(stmts), executed |-> executed,
                                  returned |-> IF executed = 0 THEN FALSE
                                               ELSE stmts[executed].k = "ReturnNode",
                                  exit |-> exit])]

\* Observation of one successful read of the variable name by a VarNode
\* ("var"), a FieldAccessNode ("field"), a method call ("method") or the
\* call of a lambda held in it ("lambda"): the deleted flag of its cell.
LogRead(st, kind, name) ==
    [st EXCEPT !.log = Append(@, [ev |-> "read", kind |-> kind, name |-> name,
                                  deleted |-> st.heap[st.variables[name]].deleted])]

\* Observation of one binary operation: the node class, the operator, the
\* operand values, how it was left and the value it yielded.
LogOp(st, node, l, r) ==
    [st EXCEPT !.log = Append(@, [ev |-> "op", node |-> node.k, op |-> node.op, left |-> l,
                                  right |-> r, exit |-> st.exc, value |-> st.result])]

FullName(fname) == IF Len(fname) = 1 THEN fname[1] ELSE fname[1] \o "." \o fname[2]

\* Observation of one test of the condition of an if, while or for
\* statement: the node class, the value of the condition and whether the
\* test raised.
LogCond(st, node, value) ==
    [st EXCEPT !.log = Append(@, [ev |-> "cond", node |-> node.k, value |-> value,
                                  exit |-> st.exc])]

\* Observation of one evaluation of the body of a loop: the node class,
\* whether the loop is in the body of a call, whether the body was left by
\* a return statement, and whether the loop stopped after it.
LogLoop(st, node, before, stopped) ==
    [st EXCEPT !.log = Append(@, [ev |-> "loop", node |-> node.k, in_call |-> st.depth > 0,
                                  body_returned |->
                                      /\ Len(st.log) > Len(before.log)
                                      /\ st.log[Len(st.log)].ev = "block"
                                      /\ st.log[Len(st.log)].returned,
                                  stopped |-> stopped, value |-> st.result])]

\* Observation of a parallel statement: how the evaluation of its block by
\* the worker ended (worker, with the message of its exception) and how the
\* evaluation of the statement itself ends (exit).
LogParallel(st, r) ==
    [st EXCEPT !.log = Append(@, [ev |-> "parallel", worker |-> r.exc, msg |-> r.msg,
                                  exit |-> st.exc])]

\* Observation of the resolution of the name of a call: which tables hold
\* the name, what the call was resolved to, and the error raised if any.
LogResolve(st, node, kind) ==
    LET name == FullName(node.fname)
    IN [st EXCEPT !.log = Append(@, [ev |-> "resolve", fname |-> node.fname, kind |-> kind,
                                     is_struct |-> name \in DOMAIN st.structs,
                                     is_function |-> name \in DOMAIN st.functions,
                                     is_lambda |-> /\ name \in DOMAIN st.variables
                                                   /\ st.heap[st.variables[name]].value.t = "lambda",
                                     exit |-> st.exc, msg |-> st.msg])]

\* isinstance(result, ReturnNode)
IsReturnNode(result) == "k" \in DOMAIN result /\ result.k = "ReturnNode"

\* ------------------------------------------------------------- evaluation
RECURSIVE evaluate(_, _, _)
RECURSIVE EvalList(_, _, _)
RECURSIVE BlockLoop(_, _, _, _)
RECURSIVE WhileLoop(_, _, _)
RECURSIVE ForLoop(_, _, _)
RECURSIVE Invoke(_, _, _, _, _, _, _, _)

\* "if isinstance(result, ReturnNode): return self.evaluate(result.expr) if
\* result.expr else None", and the result as it is otherwise.
Unwrap(r, fuel) ==
    IF ~IsReturnNode(r.result) THEN r
    ELSE IF r.result.has_expr THEN evaluate(r.result.expr, r, fuel)
    ELSE Ret(r, NoneV)

\* [self.evaluate(e) for e in nodes]: left to right, the values are
\* appended to st.vals; the first exception ends the evaluation.
EvalList(nodes, st, fuel) ==
    IF nodes = <<>> THEN st
    ELSE LET r == evaluate(nodes[1], st, fuel)
         IN IF r.exc # "none" THEN r
            ELSE EvalList(Tail(nodes), [r EXCEPT !.vals = Append(st.vals, r.result)], fuel)

EvalArgs(nodes, st, fuel) == EvalList(nodes, [st EXCEPT !.vals = <<>>], fuel)

\* BlockNode: "for stmt in node.statements".  evaluate(ReturnNode) yields
\* the value of its expression, so a statement's value is a ReturnNode only
\* if some evaluation yields one.
BlockLoop(stmts, i, st, fuel) ==
    IF i > Len(stmts) THEN LogBlock(Ret(st, NoneV), stmts, Len(stmts), "none")
    ELSE LET r == evaluate(stmts[i], st, fuel)
         IN IF r.exc # "none" THEN LogBlock(r, stmts, i, r.exc)
            ELSE IF IsReturnNode(r.result)
            THEN LET u == Unwrap(r, fuel) IN LogBlock(u, stmts, i, u.exc)
            ELSE IF r.result # NoneV THEN LogBlock(r, stmts, i, "none")
            ELSE BlockLoop(stmts, i + 1, r, fuel)

\* WhileNode
WhileLoop(node, st, fuel) ==
    LET c == evaluate(node.condition, st, fuel)
    IN IF c.exc # "none" THEN c
       ELSE IF ~IsBool(c.result)
       THEN LogCond(Raise(c, "Condition must be boolean" \o AtLine(node)), node, c.result)
       ELSE IF ~c.result.v THEN Ret(LogCond(c, node, c.result), NoneV)
       ELSE IF fuel = 0 THEN OutOfFuel(c)
       ELSE LET c1 == LogCond(c, node, c.result)
                b == evaluate(node.body, c1, fuel)
            IN IF b.exc # "none" THEN b
               ELSE IF IsReturnNode(b.result) THEN Unwrap(LogLoop(b, node, c1, TRUE), fuel)
               ELSE WhileLoop(node, LogLoop(b, node, c1, FALSE), fuel - 1)

\* ForNode, after init: "while self.evaluate(node.condition)"
ForLoop(node, st, fuel) ==
    LET c == evaluate(node.condition, st, fuel)
    IN IF c.exc # "none" THEN c
       ELSE IF ~Truthy(c.result) THEN Ret(LogCond(c, node, c.result), NoneV)
       ELSE IF fuel = 0 THEN OutOfFuel(c)
       ELSE LET c1 == LogCond(c, node, c.result)
                b == evaluate(node.body, c1, fuel)
            IN IF b.exc # "none" THEN b
               ELSE IF IsReturnNode(b.result) THEN Unwrap(LogLoop(b, node, c1, TRUE), fuel)
               ELSE LET u == evaluate(node.update, LogLoop(b, node, c1, FALSE), fuel)
                    IN IF u.exc # "none" THEN u ELSE ForLoop(node, u, fuel - 1)

\* A method call that leaves the receiver as the parameters bound it.
BindReceiver_Skipped(st, recv) == st

\* self.variables[obj_name] = {'value': obj, 'deleted': False}, after the
\* parameters are bound; recv is <<>> where the call has no receiver.
BindReceiver(st, recv) ==
    IF recv = <<>> THEN st ELSE SetVariable(st, recv[1], recv[2])

\* The body of a function, method or lambda call from saved_vars on.
\* recv is <<>>, or <<obj_name, obj>> for a method call, which rebinds the
\* receiver after the parameters.
Invoke(kind, params, body, args, recv, captured, st, fuel) ==
    IF fuel = 0 THEN OutOfFuel(st)
    ELSE
    LET saved_vars == SaveVars(st)
        before == View(st)
        s1 == BindParams(st, params, args)
        s2 == BindReceiver(s1, recv)
        r == evaluate(body, [s2 EXCEPT !.depth = @ + 1], fuel - 1)
    IN IF r.exc = "fuel" THEN r
       ELSE IF r.exc # "none"
       THEN LogCall(r, kind, params, before, View(s2), View(r), captured, r.exc)
       ELSE Unwrap(LogCall([RestoreVars(r, saved_vars) EXCEPT !.depth = st.depth], kind, params,
                           before, View(s2), View(r), captured, "none"),
                   fuel - 1)

\* Observation of one construction: the node class, the declared fields,
\* the arguments, how it was left, the value it yielded and the number of
\* StructInstance objects it created.
LogConstruct(st, node, fields, args, created) ==
    [st EXCEPT !.log = Append(@, [ev |-> "construct", node |-> node.k, fields |-> fields,
                                  args |-> args, exit |-> st.exc, value |-> st.result,
                                  created |-> created])]

\* struct construction shared by FunctionCallNode and StructInitNode
Construct(node, name, args, st) ==
    LET fields == st.structs[name].fields
        n == Len(fields)
    IN IF Len(args) = 0 /\ n > 0
       THEN LogConstruct(Ret([st EXCEPT !.next_id = @ + 1],
                             StructInstance(st.next_id, name, fields, [i \in 1..n |-> NoneV])),
                         node, fields, args, 1)
       ELSE IF n # Len(args)
       THEN LogConstruct(Raise(st, "Struct '" \o name \o "' expects " \o IntStr(n)
                                    \o " fields, got " \o IntStr(Len(args)) \o AtLine(node)),
                         node, fields, args, 0)
       ELSE LogConstruct(Ret([st EXCEPT !.next_id = @ + 1],
                             StructInstance(st.next_id, name, fields,
                                 [i \in 1..n |-> IF IsNumber(args[i]) THEN FloatV(NumOf(args[i]))
                                                 ELSE args[i]])),
                         node, fields, args, 1)

\* Observation of one method call obj.m(args): the state it was made in
\* (entry), the name and the arguments, the function it ran (func, <<>>
\* where it ran none), how it was left, and the number of observations the
\* call itself added before this one.
LogMethod(st, node, entry, args, func) ==
    IF st.exc = "fuel" THEN st
    ELSE [st EXCEPT !.log = Append(@, [ev |-> "method", obj_name |-> node.fname[1],
                                       method_name |-> node.fname[2], args |-> args,
                                       held |-> View(entry), functions |-> entry.functions,
                                       func |-> func, added |-> Len(st.log) - Len(entry.log),
                                       after |-> View(st), exit |-> st.exc, msg |-> st.msg])]

\* obj.method(args)
MethodCall(node, args, st, fuel) ==
    LET obj_name == node.fname[1]
        method_name == node.fname[2]
    IN IF obj_name \notin DOMAIN st.variables
       THEN LogMethod(Raise(st, "Undefined object '" \o obj_name \o "'" \o AtLine(node)),
                      node, st, args, <<>>)
       ELSE LET obj == st.heap[st.variables[obj_name]].value
            IN IF obj.t # "struct"
               THEN LogMethod(Raise(st, "Variable '" \o obj_name \o "' is not a struct"
                                         \o AtLine(node)),
                              node, st, args, <<>>)
               ELSE LET method_key == obj.struct_name \o "." \o method_name
                    IN IF method_key \notin DOMAIN st.functions
                       THEN LogMethod(Raise(st, "Method '" \o method_name
                                       \o "' not found in struct '"
                                       \o obj.struct_name \o "'" \o AtLine(node)),
                                      node, st, args, <<>>)
                       ELSE LET func == st.functions[method_key]
                            IN IF Len(func.params) # Len(args)
                               THEN LogMethod(Raise(st, "Method '" \o method_name \o "' expects "
                                       \o IntStr(Len(func.params)) \o " arguments, got "
                                       \o IntStr(Len(args)) \o AtLine(node)),
                                              node, st, args, <<>>)
                               ELSE LogMethod(Invoke("method", func.params, func.body, args,
                                                     <<obj_name, obj>>, <<>>,
                                                     LogRead(st, "method", obj_name), fuel),
                                              node, st, args, <<func>>)

\* lambda_func(*args)
LambdaCall(f, args, st, fuel) ==
    IF Len(f.params) # Len(args)
    THEN Raise(st, "Lambda expects " \o IntStr(Len(f.params)) \o " arguments, got "
                    \o IntStr(Len(args)) \o AtLine(f.body))
    ELSE Invoke("lambda", f.params, f.body, args, <<>>, f.captured, st, fuel)

\* A resolution that looks the name up in the functions before the structs.
Resolve_FunctionsFirst(fname, st) ==
    IF Len(fname) = 1 /\ fname[1] \in DOMAIN st.functions THEN "function"
    ELSE IF FullName(fname) \in DOMAIN st.structs THEN "struct"
    ELSE IF Len(fname) > 1 THEN "method"
    ELSE IF fname[1] \in DOMAIN st.variables /\ st.heap[st.variables[fname[1]]].value.t = "lambda"
    THEN "lambda"
    ELSE "undefined"

\* What the name of a call is resolved to, in the order of the tests of
\* FunctionCallNode: "fname in self.structs", "'.' in fname", "fname not in
\* self.functions" (then a variable holding a callable, or an error).
Resolve(fname, st) ==
    IF FullName(fname) \in DOMAIN st.structs THEN "struct"
    ELSE IF Len(fname) > 1 THEN "method"
    ELSE IF fname[1] \in DOMAIN st.functions THEN "function"
    ELSE IF fname[1] \in DOMAIN st.variables /\ st.heap[st.variables[fname[1]]].value.t = "lambda"
    THEN "lambda"
    ELSE "undefined"

\* FunctionCallNode
FunctionCall(node, st0, fuel) ==
    LET a == EvalArgs(node.args, st0, fuel)
        args == a.vals
        fname == FullName(node.fname)
        kind == Resolve(node.fname, a)
        st == LogResolve(a, node, kind)
    IN IF a.exc # "none" THEN a
       ELSE CASE kind = "struct" -> Construct(node, fname, args, st)
              [] kind = "method" -> MethodCall(node, args, st, fuel)
              [] kind = "lambda" ->
                   LambdaCall(st.heap[st.variables[fname]].value, args,
                              LogRead(st, "lambda", fname), fuel)
              [] kind = "undefined" ->
                   LogResolve(Raise(a, "Undefined function '" \o fname \o "'" \o AtLine(node)),
                              node, kind)
              [] kind = "function" ->
                   LET func == st.functions[fname]
                   IN IF Len(func.params) # Len(args)
                      THEN Raise(st, "Function '" \o fname \o "' expects "
                                      \o IntStr(Len(func.params)) \o " arguments, got "
                                      \o IntStr(Len(args)) \o AtLine(node))
                      ELSE Invoke("function", func.params, func.body, args, <<>>, <<>>, st, fuel)

\* The sentinel for IfNode.else_block = None.
NoElse == [k |-> "None", line |-> 0]

\* The interpreter's fields (the evaluation outcome and the log left out).
Fields(st) ==
    [variables |-> View(st), functions |-> st.functions, structs |-> st.structs,
     printed_values |-> st.printed_values, input_value |-> st.input_value]

\* Observation of one evaluation of an InputNode: the interpreter's fields
\* before and after it, the line of the node, and how it was left.
LogInput(st, node, before) ==
    [st EXCEPT !.log = Append(@, [ev |-> "input", before |-> before, after |-> Fields(st),
                                  node_line |-> node.line, exit |-> st.exc, line |-> st.line,
                                  value |-> st.result])]

\* An input() that leaves the staged value in place.
ClearInput_Kept(st) == st

\* self.input_value = None
ClearInput(st) == [st EXCEPT !.input_value = <<>>]

\* InputNode
Input(node, st) ==
    IF st.input_value = <<>> THEN LogInput(RaiseInputRequired(st, node.line), node, Fields(st))
    ELSE LET value == st.input_value[1]
             s == ClearInput(st)
         IN LogInput(IF IsNumeral(value) THEN Ret(s, FloatV(ParseFloat(value)))
                     ELSE Ret(s, StrV(value)),
                     node, Fields(st))

\* ParallelNode: the block runs on a pool thread while the caller waits in
\* the executor's __exit__; an exception of the worker stays in its Future.
Parallel(node, st, fuel) ==
    LET r == evaluate(node.block, st, fuel)
    IN IF r.exc = "fuel" THEN r
       ELSE LogParallel([r EXCEPT !.exc = "none", !.msg = "", !.line = 0, !.result = NoneV,
                                  !.depth = st.depth], r)

\* FieldAccessNode
FieldAccess(node, st) ==
    IF node.obj_name \notin DOMAIN st.variables
    THEN Raise(st, "Undefined variable '" \o node.obj_name \o "'" \o AtLine(node))
    ELSE LET obj == st.heap[st.variables[node.obj_name]].value
         IN IF obj.t # "struct"
            THEN Raise(st, "Variable '" \o node.obj_name \o "' is not a struct" \o AtLine(node))
            ELSE IF \A i \in 1..Len(obj.names) : obj.names[i] # node.field
            THEN Raise(st, "Field '" \o node.field \o "' not found in struct '"
                            \o obj.struct_name \o "'" \o AtLine(node))
            ELSE LET i == CHOOSE j \in 1..Len(obj.names) :
                              /\ obj.names[j] = node.field
                              /\ \A h \in (j + 1)..Len(obj.names) : obj.names[h] # node.field
                     value == obj.vals[i]
                 IN Ret(LogRead(st, "field", node.obj_name),
                        IF IsNumber(value) THEN FloatV(NumOf(value)) ELSE value)

\* Interpreter.evaluate
evaluate(node, st, fuel) ==
    CASE node.k = "NumberNode" -> Ret(st, FloatV(node.value))
      [] node.k = "StringNode" -> Ret(st, StrV(node.value))
      [] node.k = "BoolNode" -> Ret(st, BoolV(node.value))
      [] node.k = "NullNode" -> Ret(st, NoneV)
      [] node.k = "VarNode" ->
           IF node.name \notin DOMAIN st.variables \/ st.heap[st.variables[node.name]].deleted
           THEN Raise(st, "Access to undefined or deleted variable '" \o node.name \o "'" \o AtLine(node))
           ELSE Ret(LogRead(st, "var", node.name), st.heap[st.variables[node.name]].value)
      [] node.k \in {"BinOpNode", "LogicalNode", "CompareNode"} ->
           LET l == evaluate(node.left, st, fuel)
           IN IF l.exc # "none" THEN l
              ELSE LET r == evaluate(node.right, l, fuel)
                   IN IF r.exc # "none" THEN r
                      ELSE LogOp(IF node.k = "BinOpNode" THEN BinOp(node, l.result, r.result, r)
                                 ELSE IF node.k = "LogicalNode"
                                 THEN Logical(node, l.result, r.result, r)
                                 ELSE Compare(node, l.result, r.result, r),
                                 node, l.result, r.result)
      [] node.k = "UnaryOpNode" ->
           LET o == evaluate(node.operand, st, fuel)
           IN IF o.exc # "none" THEN o ELSE UnaryOp(node, o.result, o)
      [] node.k = "AssignNode" ->
           LET v == evaluate(node.value, st, fuel)
           IN IF v.exc # "none" THEN v ELSE Ret(SetVariable(v, node.name, v.result), v.result)
      [] node.k = "IfNode" ->
           LET c == evaluate(node.condition, st, fuel)
           IN IF c.exc # "none" THEN c
              ELSE IF ~IsBool(c.result)
              THEN LogCond(Raise(c, "Condition must be boolean" \o AtLine(node)), node, c.result)
              ELSE IF c.result.v THEN evaluate(node.then_block, LogCond(c, node, c.result), fuel)
              ELSE IF node.else_block # NoElse
              THEN evaluate(node.else_block, LogCond(c, node, c.result), fuel)
              ELSE Ret(LogCond(c, node, c.result), NoneV)
      [] node.k = "ForNode" ->
           LET i == evaluate(node.init, st, fuel)
           IN IF i.exc # "none" THEN i ELSE ForLoop(node, i, fuel)
      [] node.k = "WhileNode" -> WhileLoop(node, st, fuel)
      [] node.k = "BlockNode" -> BlockLoop(node.statements, 1, st, fuel)
      [] node.k = "FunctionCallNode" -> FunctionCall(node, st, fuel)
      [] node.k = "FunctionDefNode" ->
           Ret([st EXCEPT !.functions = (node.fname :> Function(node.params, node.body)) @@ @], NoneV)
      [] node.k = "StructDefNode" ->
           Ret([st EXCEPT !.structs = (node.struct_name :> StructDef(node.fields)) @@ @], NoneV)
      [] node.k = "LambdaNode" ->
           Ret([st EXCEPT !.next_id = @ + 1], LambdaV(st.next_id, node.params, node.body, View(st)))
      [] node.k = "ArrayNode" ->
           LET e == EvalArgs(node.elements, st, fuel)
           IN IF e.exc # "none" THEN e ELSE Ret(e, ListV(e.vals))
      [] node.k = "StructInitNode" ->
           IF node.struct_name \notin DOMAIN st.structs
           THEN Raise(st, "Undefined struct '" \o node.struct_name \o "'" \o AtLine(node))
           ELSE LET a == EvalArgs(node.args, st, fuel)
                IN IF a.exc # "none" THEN a ELSE Construct(node, node.struct_name, a.vals, a)
      [] node.k = "FieldAccessNode" -> FieldAccess(node, st)
      [] node.k = "PrintNode" ->
           LET v == evaluate(node.expr, st, fuel)
           IN IF v.exc # "none" THEN v
              ELSE [v EXCEPT !.printed_values = Append(@, Str(v.result))]
      [] node.k = "DeleteNode" ->
           IF node.var_name \in DOMAIN st.variables
           THEN Ret(MarkDeleted(st, node.var_name), NoneV)
           ELSE Ret(st, NoneV)
      [] node.k = "ParallelNode" -> Parallel(node, st, fuel)
      [] node.k = "InputNode" -> Input(node, st)
      [] node.k = "ReturnNode" ->
           IF node.has_expr THEN evaluate(node.expr, st, fuel) ELSE Ret(st, NoneV)
      [] OTHER -> Raise(st, "Unknown node type " \o node.k \o AtLine(node))

\* ------------------------------------------------------- host (src/main.py)
\* '\n'.join(str(item) for item in output); the items are kept as the
\* strings str(item) yields.
RECURSIVE JoinLines(_)
JoinLines(output) ==
    IF output = <<>> THEN ""
    ELSE IF Len(output) = 1 THEN output[1]
    ELSE output[1] \o "\n" \o JoinLines(Tail(output))

\* The interpreter object between two evaluate calls: no evaluation outcome.
Settled(st) ==
    [st EXCEPT !.result = NoneV, !.vals = <<>>, !.exc = "none", !.msg = "", !.line = 0, !.depth = 0]

\* A submit_input that starts over from the first statement.
ResumeIndex_Restart(session) == 0

\* The index at which submit_input resumes.
ResumeIndex(session) == session.current_stmt

\* "if interpreter.printed_values: ... elif result is not None and not
\* isinstance(statement, AssignNode): ..." : the output list after one
\* statement.
Drain(output, r, stmt) ==
    IF r.printed_values # <<>> THEN output \o r.printed_values
    ELSE IF r.result # NoneV /\ stmt.k # "AssignNode" THEN Append(output, Str(r.result))
    ELSE output

\* A handler whose inner "except" catches every exception as InputRequired.
HandlerFor_AnyException(r) == IF r.exc = "error" THEN "input" ELSE r.exc

\* The except clause that handles the exception of an evaluation: "input"
\* for "except InputRequired" inside the loop, "error" for the outer
\* "except Exception".
HandlerFor(r) == r.exc

\* What the evaluation r of stmt, started on the interpreter entry, adds to
\* the output by itself: the lines it printed, or else its value.
OwnOutput(entry, r, stmt) ==
    Drain(<<>>, [r EXCEPT !.printed_values = SubSeq(@, Len(entry.printed_values) + 1, Len(@))],
          stmt)

\* "while current_stmt < len(statements)" of run_code and submit_input.
\* current_stmt counts from 0 as in the source.  trace observes the indices
\* of the statements whose evaluation was started, performed the output of
\* the evaluations that returned (see OwnOutput).
RECURSIVE ExecLoop(_, _, _, _, _, _)
ExecLoop(interpreter, statements, current_stmt, output, trace, performed) ==
    IF current_stmt >= Len(statements)
    THEN [outcome |-> "complete", interpreter |-> interpreter, current_stmt |-> current_stmt,
          output |-> output, trace |-> trace, performed |-> performed]
    ELSE LET stmt == statements[current_stmt + 1]
             r == evaluate(stmt, interpreter, MaxFuel)
             tr == Append(trace, current_stmt)
         IN IF r.exc = "none"
            THEN ExecLoop(Settled([r EXCEPT !.printed_values = <<>>]), statements, current_stmt + 1,
                          Drain(output, r, stmt), tr, performed \o OwnOutput(interpreter, r, stmt))
            ELSE [outcome |-> HandlerFor(r), interpreter |-> r, current_stmt |-> current_stmt,
                  output |-> output, trace |-> tr, performed |-> performed]

\* The JSON bodies of the responses.
Complete(sid, output) == [status |-> "complete", output |-> JoinLines(output), session_id |-> sid]
InputRequiredResponse(sid, line, output) ==
    [status |-> "input_required", line |-> line, session_id |-> sid, output |-> JoinLines(output)]
ErrorResponse(sid, msg) == [error |-> msg, session_id |-> sid]
InvalidSession == [error |-> "Invalid session ID"]
\* No response: the handler has not returned within MaxFuel.
NoResponse == [status |-> "none"]

Status(r) == IF "status" \in DOMAIN r THEN r.status ELSE "error"

Remove(f, sid) == [s \in DOMAIN f \ {sid} |-> f[s]]

SessionIds == {"s1"}
\* The session ids a client sends to submit_input: those of run_code and
\* one that run_code is never given.
ClientIds == SessionIds \cup {"s2"}
\* the values the host supplies to input()
Inputs == {"Alice", "5", ""}

VARIABLES
    code,                \* the parsed program of the request: parser tables and statements
    interpreter_states,  \* session id -> stored session
    response,            \* the response to the last request
    observed,            \* observation of the last request (see Observation)
    requests,            \* number of requests served
    history,             \* what is observed of the requests of the last session (see Record)
    shared,              \* the Interpreter object that threads evaluate on
    threads,             \* the threads evaluating on it (see Thread)
    caller,              \* the call that started them (see EvaluateCall, ExecuteParallelCall)
    lexer,               \* a Lexer object (see Lexer)
    stream,              \* what the get_next_token calls on it yielded, in order
    parsed               \* a Parser object and what its parse() yielded (see Parser)

hvars == <<code, interpreter_states, response, observed, requests, history>>
tvars == <<shared, threads, caller>>
fvars == <<lexer, stream, parsed>>
vars == <<code, interpreter_states, response, observed, requests, history, shared, threads, caller,
          lexer, stream, parsed>>

\* The part of the interpreter that a session is to preserve.
Preserved(st) ==
    [variables |-> View(st), functions |-> st.functions, structs |-> st.structs,
     printed_values |-> st.printed_values]

\* What is observed of a request: the handler and its arguments, whether it
\* found a stored session, the interpreter its statement loop started with,
\* the log of the evaluation, the indices of the statements whose
\* evaluation was started, the handler's output list when it was left, and
\* every line printed while it ran (drained or not), in order, the
\* interpreter the loop ended with, the output of the statement evaluations
\* that returned, and whether the request came without code.
Observation(handler, sid, found, entry, res) ==
    [handler |-> handler, sid |-> sid, found |-> found, entry |-> Preserved(entry),
     final |-> Preserved(res.interpreter),
     log |-> res.interpreter.log,
     trace |-> res.trace, output |-> res.output,
     printed |-> res.output \o res.interpreter.printed_values,
     performed |-> res.performed, empty_code |-> FALSE]
NoObservation(handler, sid) ==
    [handler |-> handler, sid |-> sid, found |-> FALSE, entry |-> Preserved(NewInterpreter),
     final |-> Preserved(NewInterpreter),
     log |-> <<>>, trace |-> <<>>,
     output |-> <<>>, printed |-> <<>>, performed |-> <<>>, empty_code |-> FALSE]

\* --------------------------------------------------------------- programs
\* A parsed program: the parser's function and struct tables and the list
\* of top-level statements returned by parse().
Program(functions, structs, statements) ==
    [functions |-> functions, structs |-> structs, statements |-> statements]

Num(n) == NumberNode(n)
Var(x) == VarNode(x)
Plus(a, b) == BinOpNode("PLUS", a, b)
Call(f, args) == FunctionCallNode(<<f>>, args)
Block(stmts) == BlockNode(stmts)
Return(e) == ReturnNode(TRUE, e)

\* def add(a, b) { return a + b; }
def_add == Function(<<"a", "b">>, Block(<<Return(Plus(Var("a"), Var("b")))>>))
\* def setx(a) { x = a; }
def_setx == Function(<<"a">>, Block(<<AssignNode("x", Var("a"))>>))
\* def delx() { delete(x); y = 2; }
def_delx == Function(<<>>, Block(<<DeleteNode("x"), AssignNode("y", Num(2))>>))
\* def ask(a) { return a + input(); }
def_ask == Function(<<"a">>, Block(<<Return(Plus(Var("a"), InputNode))>>))
\* def half(a) { return a / 0; }
def_half == Function(<<"a">>, Block(<<Return(BinOpNode("DIVIDE", Var("a"), Num(0)))>>))
\* class Point { x, y  def sum(k) { return p.x + k; } }
def_Point_sum == Function(<<"k">>, Block(<<Return(Plus(FieldAccessNode("p", "x"), Var("k")))>>))

\* def get(p) { return p.x; }   (a method of Point)
def_Point_get == Function(<<"p">>, Block(<<Return(FieldAccessNode("p", "x"))>>))

\* i < 3
i_lt_3 == CompareNode("LESS", Var("i"), Num(3))
\* i = i + 1
incr_i == AssignNode("i", Plus(Var("i"), Num(1)))
\* def first() { for (i = 0; i < 3; i = i + 1) { return i + 7; } }
def_first ==
    Function(<<>>, Block(<<ForNode(AssignNode("i", Num(0)), i_lt_3, incr_i,
                                   Block(<<Return(Plus(Var("i"), Num(7)))>>))>>))
\* def spin() { while (true) { return 7; } }
def_spin == Function(<<>>, Block(<<WhileNode(BoolNode(TRUE), Block(<<Return(Num(7))>>))>>))

\* The function tables a program comes with: with and without the
\* definition of ask, the only function that contains input().
FunctionsNoInput ==
    ("add" :> def_add) @@ ("setx" :> def_setx) @@ ("delx" :> def_delx)
    @@ ("half" :> def_half) @@ ("Point.sum" :> def_Point_sum) @@ ("Point.get" :> def_Point_get)
    @@ ("first" :> def_first) @@ ("spin" :> def_spin)
Functions == ("ask" :> def_ask) @@ FunctionsNoInput
Tables == <<Functions, FunctionsNoInput>>
Structs == ("Point" :> StructDef(<<"x", "y">>))

\* (a) -> a + x
lambda_a_plus_x == LambdaNode(<<"a">>, Plus(Var("a"), Var("x")))
\* i = i - 1
decr_i == AssignNode("i", BinOpNode("MINUS", Var("i"), Num(1)))

\* The scenarios of the specification and of src/test_runner.py, and
\* variations of them.
\* for (i = 0; i < 3; i = i + 1) { }
EmptyFor == ForNode(AssignNode("i", Num(0)), i_lt_3, incr_i, Block(<<>>))

Scenarios == <<
    \* print(3 + 4 * 2);
    <<PrintNode(Plus(Num(3), BinOpNode("MULTIPLY", Num(4), Num(2))))>>,
    \* print(add(3, 4));
    <<PrintNode(Call("add", <<Num(3), Num(4)>>))>>,
    \* p = Point(3, 4); print(p.x + p.y);
    <<AssignNode("p", Call("Point", <<Num(3), Num(4)>>)),
      PrintNode(Plus(FieldAccessNode("p", "x"), FieldAccessNode("p", "y")))>>,
    \* i = 0; while (i < 3) { print(i); i = i + 1; }
    <<AssignNode("i", Num(0)), WhileNode(i_lt_3, Block(<<PrintNode(Var("i")), incr_i>>))>>,
    \* i = 0; while (i < 3) { i = i + 1; } print(i);
    <<AssignNode("i", Num(0)), WhileNode(i_lt_3, Block(<<incr_i>>)), PrintNode(Var("i"))>>,
    \* print('Hello, ' + input());
    <<PrintNode(Plus(StringNode("Hello, "), InputNode))>>,
    \* x = 1; delete(x); print(x);
    <<AssignNode("x", Num(1)), DeleteNode("x"), PrintNode(Var("x"))>>,
    \* x = 1; delete(x); x = 2; print(x);
    <<AssignNode("x", Num(1)), DeleteNode("x"), AssignNode("x", Num(2)), PrintNode(Var("x"))>>,
    \* p = Point(3, 4); delete(p); print(p.x);
    <<AssignNode("p", Call("Point", <<Num(3), Num(4)>>)), DeleteNode("p"),
      PrintNode(FieldAccessNode("p", "x"))>>,
    \* p = Point(3, 4); delete(p); print(p.sum(1));
    <<AssignNode("p", Call("Point", <<Num(3), Num(4)>>)), DeleteNode("p"),
      PrintNode(FunctionCallNode(<<"p", "sum">>, <<Num(1)>>))>>,
    \* p = Point(3, 4); print(p.sum(1));
    <<AssignNode("p", Call("Point", <<Num(3), Num(4)>>)),
      PrintNode(FunctionCallNode(<<"p", "sum">>, <<Num(1)>>))>>,
    \* x = 1; f = (a) -> a + x; delete(f); print(f(1));
    <<AssignNode("x", Num(1)), AssignNode("f", lambda_a_plus_x), DeleteNode("f"),
      PrintNode(Call("f", <<Num(1)>>))>>,
    \* x = 1; f = (a) -> a + x; x = 5; print(f(1));
    <<AssignNode("x", Num(1)), AssignNode("f", lambda_a_plus_x), AssignNode("x", Num(5)),
      PrintNode(Call("f", <<Num(1)>>))>>,
    \* x = 1; f = (a) -> a + x; delete(x); print(f(1));
    <<AssignNode("x", Num(1)), AssignNode("f", lambda_a_plus_x), DeleteNode("x"),
      PrintNode(Call("f", <<Num(1)>>))>>,
    \* x = 1; f = (a) -> a + x; print(f(1)); print(x);
    <<AssignNode("x", Num(1)), AssignNode("f", lambda_a_plus_x),
      PrintNode(Call("f", <<Num(1)>>)), PrintNode(Var("x"))>>,
    \* x = 1; setx(9); print(x);
    <<AssignNode("x", Num(1)), Call("setx", <<Num(9)>>), PrintNode(Var("x"))>>,
    \* x = 1; delx(); print(x);
    <<AssignNode("x", Num(1)), Call("delx", <<>>), PrintNode(Var("x"))>>,
    \* x = 1; print(ask(2)); print(x);
    <<AssignNode("x", Num(1)), PrintNode(Call("ask", <<Num(2)>>)), PrintNode(Var("x"))>>,
    \* print(1); half(4); print(2);
    <<PrintNode(Num(1)), Call("half", <<Num(4)>>), PrintNode(Num(2))>>,
    \* print(1); print(2); print(1 / 0);
    <<PrintNode(Num(1)), PrintNode(Num(2)), PrintNode(BinOpNode("DIVIDE", Num(1), Num(0)))>>,
    \* if (true) { print(1); print(2); }
    <<IfNode(BoolNode(TRUE), Block(<<PrintNode(Num(1)), PrintNode(Num(2))>>), NoElse)>>,
    \* parallel { print(1); print(2); }
    <<ParallelNode(Block(<<PrintNode(Num(1)), PrintNode(Num(2))>>))>>,
    \* if (true) { x = 1; print(x); }
    <<IfNode(BoolNode(TRUE), Block(<<AssignNode("x", Num(1)), PrintNode(Var("x"))>>), NoElse)>>,
    \* if (true) { delete(x); print(2); }
    <<IfNode(BoolNode(TRUE), Block(<<DeleteNode("x"), PrintNode(Num(2))>>), NoElse)>>,
    \* if (true) { }
    <<IfNode(BoolNode(TRUE), Block(<<>>), NoElse)>>,
    \* print(1); a = input(); print(a); b = input(); print(a + b);
    <<PrintNode(Num(1)), AssignNode("a", InputNode), PrintNode(Var("a")),
      AssignNode("b", InputNode), PrintNode(Plus(Var("a"), Var("b")))>>,
    \* print(1); if (true) { delete(y); x = input(); } print(x);
    <<PrintNode(Num(1)),
      IfNode(BoolNode(TRUE), Block(<<DeleteNode("y"), AssignNode("x", InputNode)>>), NoElse),
      PrintNode(Var("x"))>>,
    \* print(input() + input());
    <<PrintNode(Plus(InputNode, InputNode))>>,
    \* p = Point(3, 4); struct Point { y }; print(p.x);
    <<AssignNode("p", Call("Point", <<Num(3), Num(4)>>)), StructDefNode("Point", <<"y">>),
      PrintNode(FieldAccessNode("p", "x"))>>,
    \* struct Pair { b, a }; q = Pair(1, 2); print(q.b); l = {q, Pair()};
    <<StructDefNode("Pair", <<"b", "a">>), AssignNode("q", Call("Pair", <<Num(1), Num(2)>>)),
      PrintNode(FieldAccessNode("q", "b")),
      AssignNode("l", ArrayNode(<<Var("q"), Call("Pair", <<>>)>>))>>,
    \* p = Point(); print(p.x);
    <<AssignNode("p", Call("Point", <<>>)), PrintNode(FieldAccessNode("p", "x"))>>,
    \* p = Point(1); print(p.x);
    <<AssignNode("p", Call("Point", <<Num(1)>>)), PrintNode(FieldAccessNode("p", "x"))>>,
    \* p = Point(1, 2, 3); print(p.x);
    <<AssignNode("p", Call("Point", <<Num(1), Num(2), Num(3)>>)),
      PrintNode(FieldAccessNode("p", "x"))>>,
    \* p = Point('a', null); print(p.y); print(p.x);
    <<AssignNode("p", Call("Point", <<StringNode("a"), NullNode>>)),
      PrintNode(FieldAccessNode("p", "y")), PrintNode(FieldAccessNode("p", "x"))>>,
    \* p = Point(true, 4); print(p.x);
    <<AssignNode("p", Call("Point", <<BoolNode(TRUE), Num(4)>>)),
      PrintNode(FieldAccessNode("p", "x"))>>,
    \* the same constructions by StructInitNode
    <<AssignNode("p", StructInitNode("Point", <<Num(3), Num(4)>>)),
      PrintNode(FieldAccessNode("p", "y"))>>,
    <<AssignNode("p", StructInitNode("Point", <<>>)), PrintNode(FieldAccessNode("p", "y"))>>,
    <<AssignNode("p", StructInitNode("Point", <<Num(1)>>)), PrintNode(FieldAccessNode("p", "y"))>>,
    <<AssignNode("p", StructInitNode("Nope", <<Num(1)>>))>>,
    \* for (i = 0; i < 3; i = i + 1) { print(i); }
    <<ForNode(AssignNode("i", Num(0)), i_lt_3, incr_i, Block(<<PrintNode(Var("i"))>>))>>,
    \* for (i = 1; i; i = i - 1) { print(i); }
    <<ForNode(AssignNode("i", Num(1)), Var("i"), decr_i, Block(<<PrintNode(Var("i"))>>))>>,
    \* for (i = 1; null; i = i - 1) { print(i); }
    <<ForNode(AssignNode("i", Num(1)), NullNode, decr_i, Block(<<PrintNode(Var("i"))>>))>>,
    \* if (1) { print(1); } else { print(2); }
    <<IfNode(Num(1), Block(<<PrintNode(Num(1))>>), Block(<<PrintNode(Num(2))>>))>>,
    \* if (false) { print(1); } else { print(2); }
    <<IfNode(BoolNode(FALSE), Block(<<PrintNode(Num(1))>>), Block(<<PrintNode(Num(2))>>))>>,
    \* while ('a') { print(1); }
    <<WhileNode(StringNode("a"), Block(<<PrintNode(Num(1))>>))>>,
    \* print(first());
    <<PrintNode(Call("first", <<>>))>>,
    \* print(spin());
    <<PrintNode(Call("spin", <<>>))>>,
    \* def Point(a, b) { return a; } print(Point(1, 2));
    <<FunctionDefNode("Point", <<"a", "b">>, Block(<<Return(Var("a"))>>)),
      PrintNode(Call("Point", <<Num(1), Num(2)>>))>>,
    \* add = (a, b) -> a; print(add(3, 4));
    <<AssignNode("add", LambdaNode(<<"a", "b">>, Var("a"))),
      PrintNode(Call("add", <<Num(3), Num(4)>>))>>,
    \* print(nope(1));
    <<PrintNode(Call("nope", <<Num(1)>>))>>,
    \* x = 1; print(x(1));
    <<AssignNode("x", Num(1)), PrintNode(Call("x", <<Num(1)>>))>>,
    \* for (i = 0; i < 3; i = i + 1) { }
    <<EmptyFor>>,
    \* if (true) { print(null); x = input(); } print(x);
    <<IfNode(BoolNode(TRUE), Block(<<PrintNode(NullNode), AssignNode("x", InputNode)>>), NoElse),
      PrintNode(Var("x"))>>,
    \* parallel { x = 1 / 0; } print(2);
    <<ParallelNode(Block(<<AssignNode("x", BinOpNode("DIVIDE", Num(1), Num(0)))>>)),
      PrintNode(Num(2))>>,
    \* parallel { x = input(); } print(2);
    <<ParallelNode(Block(<<AssignNode("x", InputNode)>>)), PrintNode(Num(2))>>,
    \* p = Point(3, 4); print(p.get(5));
    <<AssignNode("p", Call("Point", <<Num(3), Num(4)>>)),
      PrintNode(FunctionCallNode(<<"p", "get">>, <<Num(5)>>))>>,
    \* struct Pair { x }; def Pair.sum(k) { return 100; }
    \* p = Point(3, 4); p = Pair(1); print(p.sum(1));
    <<StructDefNode("Pair", <<"x">>),
      FunctionDefNode("Pair.sum", <<"k">>, Block(<<Return(Num(100))>>)),
      AssignNode("p", Call("Point", <<Num(3), Num(4)>>)),
      AssignNode("p", Call("Pair", <<Num(1)>>)),
      PrintNode(FunctionCallNode(<<"p", "sum">>, <<Num(1)>>))>>,
    \* x = 1; print(x.sum(1));
    <<AssignNode("x", Num(1)), PrintNode(FunctionCallNode(<<"x", "sum">>, <<Num(1)>>))>>,
    \* p = Point(3, 4); print(p.nope(1));
    <<AssignNode("p", Call("Point", <<Num(3), Num(4)>>)),
      PrintNode(FunctionCallNode(<<"p", "nope">>, <<Num(1)>>))>>,
    \* print(q.sum(1));
    <<PrintNode(FunctionCallNode(<<"q", "sum">>, <<Num(1)>>))>>,
    \* p = Point(3, 4); print(p.sum());
    <<AssignNode("p", Call("Point", <<Num(3), Num(4)>>)),
      PrintNode(FunctionCallNode(<<"p", "sum">>, <<>>))>>
>>

\* Statements from which further programs are composed.
StmtPool == <<
    AssignNode("x", Num(1)),
    AssignNode("x", InputNode),
    PrintNode(Var("x")),
    DeleteNode("x"),
    Call("setx", <<Num(9)>>),
    Call("delx", <<>>),
    PrintNode(Call("ask", <<Num(2)>>)),
    Call("half", <<Num(4)>>),
    PrintNode(Call("add", <<Num(3), Var("x")>>)),
    AssignNode("f", lambda_a_plus_x),
    PrintNode(Call("f", <<Num(1)>>))
>>

\* Length of the composed programs.
MaxStmts == 2

\* The index sequences of the composed programs: every sequence of at most
\* n statements of StmtPool.
RECURSIVE Composed(_)
Composed(n) ==
    IF n = 0 THEN {<<>>}
    ELSE LET shorter == Composed(n - 1)
         IN shorter \cup {Append(p, i) : p \in {q \in shorter : Len(q) = n - 1},
                                         i \in 1..Len(StmtPool)}

\* Operand expressions of every kind of value.
Operands == <<
    Num(1),
    StringNode("a"),
    BoolNode(TRUE),
    NullNode,
    \* {1, 2}   {1}   {1, 3}
    ArrayNode(<<Num(1), Num(2)>>),
    ArrayNode(<<Num(1)>>),
    ArrayNode(<<Num(1), Num(3)>>),
    \* Point(1, 2)   Point(1, 3)
    Call("Point", <<Num(1), Num(2)>>),
    Call("Point", <<Num(1), Num(3)>>),
    \* (a) -> a
    LambdaNode(<<"a">>, Var("a")),
    \* {Point(1, 2)}
    ArrayNode(<<Call("Point", <<Num(1), Num(2)>>)>>)
>>

\* print(a + b);   print(a == b);   print(a != b);
OperatorStmts(a, b) == <<
    PrintNode(Plus(a, b)),
    PrintNode(CompareNode("EQUAL", a, b)),
    PrintNode(CompareNode("NOT_EQUAL", a, b))
>>

OperatorProgram(o, a, b) ==
    Program(FunctionsNoInput, Structs, <<OperatorStmts(Operands[a], Operands[b])[o]>>)

ComposedProgram(t, p) == Program(Tables[t], Structs, [j \in 1..Len(p) |-> StmtPool[p[j]]])
ScenarioProgram(t, i) == Program(Tables[t], Structs, Scenarios[i])

\* The nodes directly below a node.
Children(node) ==
    CASE node.k \in {"BinOpNode", "LogicalNode", "CompareNode"} -> <<node.left, node.right>>
      [] node.k = "UnaryOpNode" -> <<node.operand>>
      [] node.k = "AssignNode" -> <<node.value>>
      [] node.k = "IfNode" ->
           IF node.else_block = NoElse THEN <<node.condition, node.then_block>>
           ELSE <<node.condition, node.then_block, node.else_block>>
      [] node.k = "ForNode" -> <<node.init, node.condition, node.update, node.body>>
      [] node.k = "WhileNode" -> <<node.condition, node.body>>
      [] node.k = "BlockNode" -> node.statements
      [] node.k \in {"FunctionCallNode", "StructInitNode"} -> node.args
      [] node.k \in {"LambdaNode", "FunctionDefNode"} -> <<node.body>>
      [] node.k = "ArrayNode" -> node.elements
      [] node.k = "PrintNode" -> <<node.expr>>
      [] node.k = "ParallelNode" -> <<node.block>>
      [] node.k = "ReturnNode" -> IF node.has_expr THEN <<node.expr>> ELSE <<>>
      [] OTHER -> <<>>

\* The source of the node contains an input() expression.
RECURSIVE ContainsInput(_)
ContainsInput(node) ==
    \/ node.k = "InputNode"
    \/ \E i \in 1..Len(Children(node)) : ContainsInput(Children(node)[i])

ProgramHasInput(program) ==
    \/ \E i \in 1..Len(program.statements) : ContainsInput(program.statements[i])
    \/ \E f \in DOMAIN program.functions : ContainsInput(program.functions[f].body)

\* ---------------------------------------------------------------- actions
\* What interpreter_states keeps of the interpreter object: its state when
\* the handler returned (the observation log is not part of it).
Kept(st) == [Settled(st) EXCEPT !.log = <<>>]

Session(interpreter, parser, statements, current_stmt) ==
    [interpreter |-> Kept(interpreter), parser |-> parser, statements |-> statements,
     current_stmt |-> current_stmt]

\* The end of run_code and submit_input: the response and the session store
\* for the outcome res of the statement loop.
Respond(sid, parser, statements, res) ==
       CASE res.outcome = "complete" ->
              /\ interpreter_states' = Remove(interpreter_states, sid)
              /\ response' = Complete(sid, res.output)
         [] res.outcome = "input" ->
              /\ interpreter_states' =
                    (sid :> Session(res.interpreter, parser, statements, res.current_stmt))
                    @@ interpreter_states
              /\ response' = InputRequiredResponse(sid, res.interpreter.line, res.output)
         [] res.outcome = "error" ->
              /\ interpreter_states' = Remove(interpreter_states, sid)
              /\ response' = ErrorResponse(sid, res.interpreter.msg)
         \* the evaluation does not return within MaxFuel: no response yet
         [] res.outcome = "fuel" ->
              /\ interpreter_states' = interpreter_states
              /\ response' = NoResponse

\* What history keeps of a request: the handler, the session id, the
\* status of the response, whether the session is stored when the handler
\* returns and at which statement, the output list of the response and the
\* output of the statement evaluations that returned.
Served(handler, sid, resp, states, obs) ==
    [handler |-> handler, sid |-> sid, status |-> Status(resp),
     stored |-> sid \in DOMAIN states,
     current_stmt |-> IF sid \in DOMAIN states THEN states[sid].current_stmt ELSE -1,
     output |-> obs.output, performed |-> obs.performed]

\* history holds the requests of one session: it starts again with a
\* run_code that makes a new Interpreter (started), takes every request
\* made for a session that is stored (found), and no other request.
Record(started, found, entry) ==
    IF started THEN <<entry>> ELSE IF found THEN Append(history, entry) ELSE history

\* The code of a request is the source text of the program, or is missing
\* (the empty string).
CodeGiven == {TRUE, FALSE}

\* if not code: return jsonify({'error': 'No code provided', ...}), 400
Rejects(given) == ~given

\* POST /run
run_code(sid, given) ==
    /\ requests < MaxRequests
    /\ requests' = requests + 1
    /\ UNCHANGED <<code, shared, threads, caller, fvars>>
    /\ IF Rejects(given)
       THEN /\ response' = ErrorResponse(sid, "No code provided")
            /\ observed' = [NoObservation("run_code", sid) EXCEPT !.empty_code = TRUE]
            /\ UNCHANGED interpreter_states
       ELSE IF sid \in DOMAIN interpreter_states
       THEN LET session == interpreter_states[sid]
                res == ExecLoop(session.interpreter, session.statements,
                                session.current_stmt, <<>>, <<>>, <<>>)
            IN /\ Respond(sid, session.parser, session.statements, res)
               /\ observed' = [Observation("run_code", sid, TRUE, session.interpreter, res)
                                  EXCEPT !.empty_code = ~given]
       ELSE LET parser == [functions |-> code.functions, structs |-> code.structs]
                interpreter == [NewInterpreter EXCEPT !.functions = parser.functions,
                                                      !.structs = parser.structs]
                res == ExecLoop(interpreter, code.statements, 0, <<>>, <<>>, <<>>)
            IN /\ Respond(sid, parser, code.statements, res)
               /\ observed' = [Observation("run_code", sid, FALSE, interpreter, res)
                                  EXCEPT !.empty_code = ~given]
    /\ history' = Record(~Rejects(given) /\ sid \notin DOMAIN interpreter_states,
                         sid \in DOMAIN interpreter_states,
                         Served("run_code", sid, response', interpreter_states', observed'))

\* POST /submit_input
submit_input(sid, user_input) ==
    /\ requests < MaxRequests
    /\ requests' = requests + 1
    /\ UNCHANGED <<code, shared, threads, caller, fvars>>
    /\ IF sid \notin DOMAIN interpreter_states
       THEN /\ response' = InvalidSession
            /\ observed' = NoObservation("submit_input", sid)
            /\ UNCHANGED interpreter_states
       ELSE LET session == interpreter_states[sid]
                staged == set_input(session.interpreter, user_input)
                interpreter == [staged EXCEPT !.functions = session.parser.functions @@ @,
                                              !.structs = session.parser.structs @@ @]
                res == ExecLoop(interpreter, session.statements, ResumeIndex(session),
                                <<>>, <<>>, <<>>)
            IN /\ Respond(sid, session.parser, session.statements, res)
               /\ observed' = Observation("submit_input", sid, TRUE, interpreter, res)
    /\ history' = Record(FALSE, sid \in DOMAIN interpreter_states,
                         Served("submit_input", sid, response', interpreter_states', observed'))

\* ------------------------------------------------------------------ lexer
\* The Lexer of src/lexer.py.  A source text is a sequence of characters
\* (strings of length one); NoChar is the None that current_char holds
\* past the end of the text.

\* Length of the source texts handed to the lexer.
MaxLen == 4
\* Number of get_next_token calls made on one Lexer.
MaxCalls == 6

NoChar == ""
\* The characters of the source texts: a letter, a digit, the characters
\* of MINUS and ARROW, of a number, of white space, of a comment, of a
\* string, and a character that starts no token.
Alphabet == {"a", "1", "-", ">", ".", " ", "\n", "/", "'", "$"}
Texts(n) == UNION {[1..k -> Alphabet] : k \in 0..n}

isspace(c) == c \in {" ", "\n", "\t", "\r"}
isdigit(c) == c \in {"0", "1", "2", "3", "4", "5", "6", "7", "8", "9"}
UpperCase == <<"A", "B", "C", "D", "E", "F", "G", "H", "I", "J", "K", "L", "M",
               "N", "O", "P", "Q", "R", "S", "T", "U", "V", "W", "X", "Y", "Z">>
LowerCase == <<"a", "b", "c", "d", "e", "f", "g", "h", "i", "j", "k", "l", "m",
               "n", "o", "p", "q", "r", "s", "t", "u", "v", "w", "x", "y", "z">>
isalpha(c) == \E k \in 1..26 : c = UpperCase[k] \/ c = LowerCase[k]
isalnum(c) == isalpha(c) \/ isdigit(c)
\* str.lower() on one character
lower(c) ==
    IF \E k \in 1..26 : c = UpperCase[k]
    THEN LowerCase[CHOOSE k \in 1..26 : c = UpperCase[k]]
    ELSE c

\* The string made of a sequence of characters.
RECURSIVE Chars(_)
Chars(cs) == IF cs = <<>> THEN "" ELSE cs[1] \o Chars(Tail(cs))

\* float(result) for a result made of an optional '-', digits and at most
\* one '.': the sign, the integer written by the digits and the number of
\* digits after the dot, i.e. (-1)^neg * digits / 10^scale.
RECURSIVE DigitsOf(_, _)
DigitsOf(cs, acc) ==
    IF cs = <<>> THEN acc
    ELSE IF isdigit(cs[1])
    THEN DigitsOf(Tail(cs), 10 * acc + (CHOOSE d \in 0..9 : Digit(d) = cs[1]))
    ELSE DigitsOf(Tail(cs), acc)
RECURSIVE ScaleOf(_)
ScaleOf(cs) ==
    IF cs = <<>> THEN 0
    ELSE IF cs[1] = "." THEN Len(cs) - 1
    ELSE ScaleOf(Tail(cs))
float(result) ==
    [neg |-> result[1] = "-", digits |-> DigitsOf(result, 0), scale |-> ScaleOf(result)]
IsNegative(value) == value.neg /\ value.digits > 0

\* Token(type, value, line, column) of src/tokens.py
Token(type, value, line, column) ==
    [type |-> type, value |-> value, line |-> line, column |-> column]

\* Lexer.__init__
Lexer(text) ==
    [text |-> text, pos |-> 0, line |-> 1, column |-> 1,
     current_char |-> IF text # <<>> THEN text[1] ELSE NoChar]

\* self.text[self.pos + 1] where self.pos + 1 < len(self.text)
Peek(lx) == IF lx.pos + 1 < Len(lx.text) THEN lx.text[lx.pos + 2] ELSE NoChar

\* An advance that does not reset the column at a newline.
advance_NoReset(lx) ==
    LET pos == lx.pos + 1
    IN [lx EXCEPT !.line = IF lx.current_char = "\n" THEN @ + 1 ELSE @,
                  !.pos = pos,
                  !.column = @ + 1,
                  !.current_char = IF pos < Len(lx.text) THEN lx.text[pos + 1] ELSE NoChar]

\* Lexer.advance
advance(lx) ==
    LET pos == lx.pos + 1
    IN [lx EXCEPT !.line = IF lx.current_char = "\n" THEN @ + 1 ELSE @,
                  !.pos = pos,
                  !.column = (IF lx.current_char = "\n" THEN 0 ELSE @) + 1,
                  !.current_char = IF pos < Len(lx.text) THEN lx.text[pos + 1] ELSE NoChar]

\* F applied to the value of x: x is evaluated once, as the right-hand side
\* of a Python assignment is, however often F refers to it.
Then(x, F(_)) == CHOOSE r \in {F(v) : v \in {x}} : TRUE

\* Lexer.skip_whitespace
RECURSIVE skip_whitespace(_)
skip_whitespace(lx) ==
    IF lx.current_char # NoChar /\ isspace(lx.current_char)
    THEN Then(advance(lx), LAMBDA next : skip_whitespace(next))
    ELSE lx

\* Lexer.skip_comment
RECURSIVE skip_comment(_)
skip_comment(lx) ==
    IF lx.current_char # NoChar /\ lx.current_char # "\n"
    THEN skip_comment(advance(lx))
    ELSE IF lx.current_char = "\n" THEN advance(lx) ELSE lx

\* What a call on the lexer yields: the lexer after it, the value or
\* token returned (a sequence of length one, empty where it raised) and
\* the message of the exception raised ("none" where it returned).
Returned(lx, value) == [lexer |-> lx, value |-> <<value>>, exc |-> "none"]
Raised(lx, msg) == [lexer |-> lx, value |-> <<>>, exc |-> msg]
At(line, column) == " at line " \o IntStr(line) \o ", column " \o IntStr(column)

\* The while loop of get_number.
RECURSIVE NumberLoop(_, _, _)
NumberLoop(lx, result, has_dot) ==
    IF lx.current_char # NoChar /\ (isdigit(lx.current_char) \/ lx.current_char = ".")
    THEN IF lx.current_char = "." /\ has_dot
         THEN Raised(lx, "Invalid number format: multiple dots" \o At(lx.line, lx.column))
         ELSE NumberLoop(advance(lx), Append(result, lx.current_char),
                         has_dot \/ lx.current_char = ".")
    ELSE Returned(lx, result)

\* The test of the number branch of get_next_token.
StartsNumber(lx) ==
    \/ isdigit(lx.current_char)
    \/ lx.current_char = "-" /\ lx.pos + 1 < Len(lx.text) /\ isdigit(Peek(lx))

\* Lexer.get_number
get_number(lx) ==
    LET start_line == lx.line
        start_column == lx.column
        minus == lx.current_char = "-"
        loop == NumberLoop(IF minus THEN advance(lx) ELSE lx,
                           IF minus THEN <<"-">> ELSE <<>>, FALSE)
        result == loop.value[1]
    IN IF loop.exc # "none" THEN loop
       ELSE IF result \in {<<>>, <<"-">>, <<"-", ".">>, <<".">>}
       THEN Raised(loop.lexer, "Invalid number format '" \o Chars(result) \o "'"
                               \o At(start_line, start_column))
       ELSE Returned(loop.lexer, float(result))

\* The while loop of get_string.
RECURSIVE StringLoop(_, _, _)
StringLoop(lx, quote_type, result) ==
    IF lx.current_char # NoChar /\ lx.current_char # quote_type
    THEN StringLoop(advance(lx), quote_type, Append(result, lx.current_char))
    ELSE Returned(lx, result)

\* Lexer.get_string
get_string(lx) ==
    LET quote_type == lx.current_char
        loop == StringLoop(advance(lx), quote_type, <<>>)
    IN IF loop.lexer.current_char # quote_type
       THEN Raised(loop.lexer, "Unterminated string" \o At(loop.lexer.line, loop.lexer.column))
       ELSE Returned(advance(loop.lexer), Chars(loop.value[1]))

\* Lexer.get_id
RECURSIVE get_id(_, _)
get_id(lx, result) ==
    IF lx.current_char # NoChar /\ (isalnum(lx.current_char) \/ lx.current_char = "_")
    THEN get_id(advance(lx), Append(result, lx.current_char))
    ELSE Returned(lx, result)

\* The keywords of get_next_token, compared with value.lower().
KeywordType(word) ==
    CASE word = "if" -> "IF" [] word = "else" -> "ELSE" [] word = "for" -> "FOR"
      [] word = "while" -> "WHILE" [] word = "def" -> "DEF" [] word = "return" -> "RETURN"
      [] word = "struct" -> "STRUCT" [] word = "class" -> "CLASS" [] word = "print" -> "PRINT"
      [] word = "true" -> "TRUE" [] word = "false" -> "FALSE" [] word = "and" -> "AND"
      [] word = "or" -> "OR" [] word = "not" -> "NOT" [] word = "null" -> "NULL"
      [] word = "delete" -> "DELETE" [] word = "parallel" -> "PARALLEL"
      [] word = "input" -> "INPUT" [] OTHER -> "ID"

\* The two-character and one-character tokens of get_next_token that are
\* made of the current character (and '=' after it).
WithEqual(c) ==
    CASE c = "=" -> "EQUAL" [] c = "!" -> "NOT_EQUAL" [] c = "<" -> "LESS_EQUAL"
      [] c = ">" -> "GREATER_EQUAL" [] OTHER -> ""
Single(c) ==
    CASE c = "=" -> "ASSIGN" [] c = "+" -> "PLUS" [] c = "*" -> "MULTIPLY"
      [] c = "/" -> "DIVIDE" [] c = "^" -> "EXPONENTIATION" [] c = "%" -> "MODULUS"
      [] c = "<" -> "LESS" [] c = ">" -> "GREATER" [] c = "(" -> "LPAREN"
      [] c = ")" -> "RPAREN" [] c = "{" -> "LBRACE" [] c = "}" -> "RBRACE"
      [] c = "." -> "DOT" [] c = "," -> "COMMA" [] c = ";" -> "SEMICOLON" [] OTHER -> ""

\* Token(type, value, self.line, self.column) made after lx was reached.
TokenAt(lx, type, value) == Returned(lx, Token(type, value, lx.line, lx.column))

\* Lexer.get_next_token
RECURSIVE GetNextToken(_)
GetNextToken(lexer0) ==
    LET lx == skip_whitespace(lexer0)
        c == lx.current_char
    IN IF c = NoChar THEN TokenAt(lx, "EOF", "None")
       ELSE IF c = "/" /\ Peek(lx) = "/"
       THEN GetNextToken(skip_comment(advance(advance(lx))))
       ELSE IF StartsNumber(lx)
       THEN LET n == get_number(lx)
            IN IF n.exc # "none" THEN n ELSE TokenAt(n.lexer, "NUMBER", n.value[1])
       ELSE IF c \in {"'", "\""}
       THEN LET s == get_string(lx)
            IN IF s.exc # "none" THEN s ELSE TokenAt(s.lexer, "STRING", s.value[1])
       ELSE IF isalpha(c) \/ c = "_"
       THEN LET id == get_id(lx, <<>>)
                value == Chars(id.value[1])
                value_lower == Chars([k \in 1..Len(id.value[1]) |-> lower(id.value[1][k])])
            IN TokenAt(id.lexer, KeywordType(value_lower),
                       IF value_lower = "null" THEN "None" ELSE value)
       ELSE IF WithEqual(c) # "" /\ Peek(lx) = "="
       THEN TokenAt(advance(advance(lx)), WithEqual(c), c \o "=")
       ELSE IF c = "-"
       THEN IF advance(lx).current_char = ">"
            THEN TokenAt(advance(advance(lx)), "ARROW", "->")
            ELSE TokenAt(advance(lx), "MINUS", "-")
       ELSE IF Single(c) # ""
       THEN TokenAt(advance(lx), Single(c), c)
       ELSE Raised(lx, "Invalid character '" \o c \o "'" \o At(lx.line, lx.column))

\* One call lexer.get_next_token() by the owner of the Lexer; stream is the
\* list of what the calls made so far yielded.
get_next_token ==
    /\ Len(stream) < MaxCalls
    /\ LET r == GetNextToken(lexer)
       IN /\ lexer' = r.lexer
          /\ stream' = Append(stream, [token |-> r.value, exc |-> r.exc])
    /\ UNCHANGED <<hvars, tvars, parsed>>

\* ----------------------------------------------------------------- parser
\* The Parser of src/parser.py and the Lexer of the same file that feeds
\* it (its __init__, advance and skip_whitespace are those of src/lexer.py,
\* modelled above).  A rule takes the parser and yields the parser after it
\* and the node it built; an exception is kept in the field exc of the
\* parser (of the lexer), and every rule and every eat that follows it
\* passes it on untouched, as the Python exception unwinds the rules.
\* Each local of a rule is bound with Then, which evaluates it once, and a
\* rule calls another rule through Rule, as a method calls one through self.

\* Lexer.skip_comment of src/parser.py
RECURSIVE skip_line(_)
skip_line(lx) ==
    IF lx.current_char # NoChar /\ lx.current_char # "\n"
    THEN skip_line(advance(lx))
    ELSE advance(lx)

\* Lexer.error
LexerError(lx, message) == Raised(lx, message \o At(lx.line, lx.column))

\* The while loop of Lexer.number
RECURSIVE NumberChars(_, _, _)
NumberChars(lx, result, decimal_point_count) ==
    IF lx.current_char # NoChar /\ (isdigit(lx.current_char) \/ lx.current_char = ".")
    THEN IF lx.current_char = "." /\ decimal_point_count + 1 > 1
         THEN LexerError(lx, "Too many decimal points in number")
         ELSE NumberChars(advance(lx), Append(result, lx.current_char),
                          decimal_point_count + (IF lx.current_char = "." THEN 1 ELSE 0))
    ELSE Returned(lx, result)

\* Lexer.number
number(lx) ==
    LET loop == NumberChars(lx, <<>>, 0)
        r1 == loop.value[1]
        r2 == IF r1 # <<>> /\ r1[1] = "." THEN <<"0">> \o r1 ELSE r1
        result == IF r2 # <<>> /\ r2[Len(r2)] = "." THEN Append(r2, "0") ELSE r2
    IN IF loop.exc # "none" THEN loop
       ELSE Returned(loop.lexer, Token("NUMBER", float(result), loop.lexer.line,
                                       loop.lexer.column - Len(result)))

\* The while loop of Lexer.string
RECURSIVE StringChars(_, _)
StringChars(lx, result) ==
    IF lx.current_char # NoChar /\ lx.current_char # "'"
    THEN StringChars(advance(lx), Append(result, lx.current_char))
    ELSE Returned(lx, result)

\* Lexer.string
string(lx) ==
    LET loop == StringChars(advance(lx), <<>>)
        result == loop.value[1]
        end == advance(loop.lexer)
    IN IF loop.lexer.current_char = NoChar
       THEN LexerError(loop.lexer, "Unterminated string")
       ELSE Returned(end, Token("STRING", Chars(result), end.line, end.column - Len(result) - 2))

\* self.keywords
KeywordOf(word) ==
    CASE word \in {"IF", "if"} -> "IF"
      [] word \in {"ELSE", "else"} -> "ELSE"
      [] word \in {"FOR", "for"} -> "FOR"
      [] word \in {"DEF", "function"} -> "DEF"
      [] word \in {"RETURN", "return"} -> "RETURN"
      [] word \in {"STRUCT", "struct"} -> "STRUCT"
      [] word \in {"PRINT", "print"} -> "PRINT"
      [] word \in {"TRUE", "true"} -> "TRUE"
      [] word \in {"FALSE", "false"} -> "FALSE"
      [] word \in {"AND", "and"} -> "AND"
      [] word \in {"OR", "or"} -> "OR"
      [] word \in {"NOT", "not"} -> "NOT"
      [] OTHER -> "ID"

\* Lexer._id
RECURSIVE IdChars(_, _)
IdChars(lx, result) ==
    IF lx.current_char # NoChar /\ (isalnum(lx.current_char) \/ lx.current_char = "_")
    THEN Then(advance(lx), LAMBDA next : IdChars(next, Append(result, lx.current_char)))
    ELSE Returned(lx, result)
_id(lx) ==
    Then(IdChars(lx, <<>>), LAMBDA loop :
         LET result == Chars(loop.value[1])
         IN Returned(loop.lexer, Token(KeywordOf(result), result, loop.lexer.line,
                                       loop.lexer.column - Len(loop.value[1]))))

\* The one-character tokens of Lexer.get_next_token and the tokens made
\* of a character and '='.
Punctuation(c) ==
    CASE c = "." -> "DOT" [] c = "+" -> "PLUS" [] c = "-" -> "MINUS" [] c = "*" -> "MULTIPLY"
      [] c = "/" -> "DIVIDE" [] c = "^" -> "EXPONENTIATION" [] c = "%" -> "MODULUS"
      [] c = "(" -> "LPAREN" [] c = ")" -> "RPAREN" [] c = "{" -> "LBRACE"
      [] c = "}" -> "RBRACE" [] c = "," -> "COMMA" [] c = ";" -> "SEMICOLON"
      [] c = "=" -> "ASSIGN" [] c = "<" -> "LESS" [] c = ">" -> "GREATER" [] OTHER -> ""
ThenEqual(c) ==
    CASE c = "=" -> "EQUAL" [] c = "!" -> "NOT_EQUAL" [] c = "<" -> "LESS_EQUAL"
      [] c = ">" -> "GREATER_EQUAL" [] OTHER -> ""

\* Lexer.get_next_token of src/parser.py
RECURSIVE NextToken(_)
NextToken(lx) ==
    LET c == lx.current_char
        one == advance(lx)
        two == advance(one)
    IN IF c = NoChar THEN Returned(lx, Token("EOF", "None", lx.line, lx.column))
       ELSE IF isspace(c) THEN Then(skip_whitespace(lx), LAMBDA next : NextToken(next))
       ELSE IF c = "#" THEN Then(skip_line(lx), LAMBDA next : NextToken(next))
       ELSE IF c = "." THEN Returned(one, Token("DOT", ".", one.line, one.column - 1))
       ELSE IF isdigit(c) THEN number(lx)
       ELSE IF c = "'" THEN string(lx)
       ELSE IF isalpha(c) THEN _id(lx)
       ELSE IF ThenEqual(c) # "" /\ one.current_char = "="
       THEN Returned(two, Token(ThenEqual(c), c \o "=", two.line, two.column - 2))
       ELSE IF c = "!" THEN LexerError(one, "Expected '!=' after '!'")
       ELSE IF Punctuation(c) # ""
       THEN Returned(one, Token(Punctuation(c), c, one.line, one.column - 1))
       ELSE LexerError(lx, "Invalid character '" \o c \o "'")

\* The node class NotNode of src/parser.py.
NotNode(node) == [k |-> "NotNode", node |-> node, line |-> 1]

\* self.current_token = self.lexer.get_next_token()
TakeToken(p) ==
    Then(NextToken(p.lexer), LAMBDA r :
         IF r.exc # "none" THEN [p EXCEPT !.lexer = r.lexer, !.exc = r.exc]
         ELSE [p EXCEPT !.lexer = r.lexer, !.current_token = r.value[1]])

\* Parser.__init__
Parser(lx) ==
    TakeToken([made |-> TRUE, lexer |-> lx, current_token |-> Token("EOF", "None", 0, 0),
               functions |-> <<>>, structs |-> <<>>, variables |-> <<>>,
               exc |-> "none", done |-> FALSE, statements |-> <<>>])
NoParser == [made |-> FALSE]

\* Parser.error
ParserError(p, message) ==
    IF p.exc # "none" THEN p
    ELSE [p EXCEPT !.exc = message \o At(p.current_token.line, p.current_token.column)]

\* Parser.eat
eat(p, token_type) ==
    IF p.exc # "none" THEN p
    ELSE IF p.current_token.type = token_type THEN TakeToken(p)
    ELSE ParserError(p, "Expected TokenType." \o token_type \o ", got TokenType."
                        \o p.current_token.type)

\* What a rule yields.
Built(p, node) == [parser |-> p, node |-> node]
Is(p, token_type) == p.exc = "none" /\ p.current_token.type = token_type
Failed(r) == r.parser.exc # "none"

\* self.<name>(): the rule of that name applied to the parser.  The rules
\* call one another through it, as the methods of the Parser do through self.
RECURSIVE Rule(_, _)

RECURSIVE ArgumentsRest(_, _), ExponentRest(_, _), TermRest(_, _), ExpressionRest(_, _)

\* args.append(self.expression()) and the while loop on COMMA
ArgumentsRest(p, args) ==
    Then(Rule("expression", p), LAMBDA e :
         IF Failed(e) THEN Built(e.parser, args)
         ELSE IF Is(e.parser, "COMMA")
         THEN Then(eat(e.parser, "COMMA"), LAMBDA p1 : ArgumentsRest(p1, Append(args, e.node)))
         ELSE Built(e.parser, Append(args, e.node)))

\* The argument list of a call, from LPAREN to RPAREN.
Arguments(p) ==
    Then(eat(p, "LPAREN"), LAMBDA p1 :
    Then(IF Is(p1, "RPAREN") \/ p1.exc # "none" THEN Built(p1, <<>>) ELSE ArgumentsRest(p1, <<>>),
         LAMBDA a : Built(eat(a.parser, "RPAREN"), a.node)))

\* Parser.atom
atom(p) ==
    LET token == p.current_token
    IN IF p.exc # "none" THEN Built(p, NoElse)
       ELSE CASE token.type = "NUMBER" -> Built(eat(p, "NUMBER"), NumberNode(token.value))
              [] token.type = "STRING" -> Built(eat(p, "STRING"), StringNode(token.value))
              [] token.type = "TRUE" -> Built(eat(p, "TRUE"), BoolNode(TRUE))
              [] token.type = "FALSE" -> Built(eat(p, "FALSE"), BoolNode(FALSE))
              [] token.type = "ID" ->
                   LET name == token.value
                   IN Then(eat(p, "ID"), LAMBDA p1 :
                      IF Is(p1, "LPAREN")
                      THEN Then(Rule("Arguments", p1), LAMBDA a :
                                IF name \in DOMAIN a.parser.structs
                                THEN Built(a.parser, StructInitNode(name, a.node))
                                ELSE Built(a.parser, FunctionCallNode(<<name>>, a.node)))
                      ELSE IF Is(p1, "DOT")
                      THEN Then(eat(p1, "DOT"), LAMBDA p2 :
                                Built(eat(p2, "ID"), FieldAccessNode(name, p2.current_token.value)))
                      ELSE Built(p1, VarNode(name)))
              [] token.type = "LPAREN" ->
                   Then(eat(p, "LPAREN"), LAMBDA p1 :
                   Then(Rule("expression", p1), LAMBDA e : Built(eat(e.parser, "RPAREN"), e.node)))
              [] OTHER -> Built(ParserError(p, "Unexpected token TokenType." \o token.type), NoElse)

\* The while loop of Parser.exponentiation
ExponentRest(p, node) ==
    IF Is(p, "EXPONENTIATION")
    THEN Then(eat(p, "EXPONENTIATION"), LAMBDA p1 :
         Then(Rule("factor", p1), LAMBDA f :
              ExponentRest(f.parser, BinOpNode("EXPONENTIATION", node, f.node))))
    ELSE Built(p, node)

\* Parser.exponentiation
exponentiation(p) ==
    Then(Rule("atom", p), LAMBDA a : ExponentRest(a.parser, a.node))

\* Parser.factor
factor(p) ==
    IF Is(p, "PLUS") \/ Is(p, "MINUS")
    THEN LET op == p.current_token.type
         IN Then(eat(p, op), LAMBDA p1 :
            Then(Rule("factor", p1), LAMBDA f : Built(f.parser, UnaryOpNode(op, f.node))))
    ELSE Rule("exponentiation", p)

\* The while loop of Parser.term
TermRest(p, node) ==
    IF Is(p, "MULTIPLY") \/ Is(p, "DIVIDE") \/ Is(p, "MODULUS")
    THEN LET op == p.current_token.type
         IN Then(eat(p, op), LAMBDA p1 :
            Then(Rule("factor", p1), LAMBDA f : TermRest(f.parser, BinOpNode(op, node, f.node))))
    ELSE Built(p, node)

\* Parser.term
term(p) ==
    Then(Rule("factor", p), LAMBDA f : TermRest(f.parser, f.node))

\* The while loop of Parser.expression
ExpressionRest(p, node) ==
    IF Is(p, "PLUS") \/ Is(p, "MINUS")
    THEN LET op == p.current_token.type
         IN Then(eat(p, op), LAMBDA p1 :
            Then(Rule("term", p1), LAMBDA t : ExpressionRest(t.parser, BinOpNode(op, node, t.node))))
    ELSE Built(p, node)

\* Parser.expression
expression(p) ==
    Then(Rule("term", p), LAMBDA t : ExpressionRest(t.parser, t.node))

\* The while loop of Parser.comparison
RECURSIVE ComparisonRest(_, _)
ComparisonRest(p, node) ==
    IF \E type \in {"EQUAL", "NOT_EQUAL", "LESS", "GREATER", "LESS_EQUAL", "GREATER_EQUAL"} :
          Is(p, type)
    THEN LET op == p.current_token.type
         IN Then(eat(p, op), LAMBDA p1 :
            Then(Rule("expression", p1), LAMBDA e :
                 ComparisonRest(e.parser, CompareNode(op, node, e.node))))
    ELSE Built(p, node)

\* Parser.comparison
comparison(p) ==
    Then(Rule("expression", p), LAMBDA e : ComparisonRest(e.parser, e.node))

\* The while loop of Parser.logical_expr
RECURSIVE LogicalRest(_, _)
LogicalRest(p, node) ==
    IF Is(p, "AND") \/ Is(p, "OR")
    THEN LET op == p.current_token.type
         IN Then(eat(p, op), LAMBDA p1 :
            Then(Rule("comparison", p1), LAMBDA c : LogicalRest(c.parser, LogicalNode(op, node, c.node))))
    ELSE Built(p, node)

\* Parser.logical_expr
logical_expr(p) ==
    IF Is(p, "NOT")
    THEN Then(eat(p, "NOT"), LAMBDA p1 :
         Then(Rule("logical_expr", p1), LAMBDA e : Built(e.parser, NotNode(e.node))))
    ELSE Then(Rule("comparison", p), LAMBDA c : LogicalRest(c.parser, c.node))

\* if self.current_token.type == TokenType.SEMICOLON: self.eat(...)
OptionalSemicolon(p) == IF Is(p, "SEMICOLON") THEN eat(p, "SEMICOLON") ELSE p

\* self.eat(...) for each of the token types in turn
RECURSIVE eats(_, _)
eats(p, token_types) ==
    IF token_types = <<>> THEN p
    ELSE Then(eat(p, Head(token_types)), LAMBDA p1 : eats(p1, Tail(token_types)))

\* Parser.assign_stmt
assign_stmt(p) ==
    Then(eats(p, <<"ID", "ASSIGN">>), LAMBDA p1 :
    Then(Rule("logical_expr", p1), LAMBDA value :
         Built(value.parser, AssignNode(p.current_token.value, value.node))))

\* Parser.print_stmt
print_stmt(p) ==
    Then(eats(p, <<"PRINT", "LPAREN">>), LAMBDA p1 :
    Then(Rule("logical_expr", p1), LAMBDA expr :
         Built(eat(expr.parser, "RPAREN"), PrintNode(expr.node))))

\* A list of identifiers separated by commas, up to the token closing.
RECURSIVE Names(_, _, _)
Names(p, closing, names) ==
    IF p.exc # "none" \/ (names = <<>> /\ Is(p, closing)) THEN Built(p, names)
    ELSE Then(eat(p, "ID"), LAMBDA p1 :
         LET found == Append(names, p.current_token.value)
         IN IF Is(p1, "COMMA")
            THEN Then(eat(p1, "COMMA"), LAMBDA p2 : Names(p2, closing, found))
            ELSE Built(p1, found))

\* Parser.function_def
function_def(p) ==
    Then(eat(p, "DEF"), LAMBDA p1 :
    Then(eats(p1, <<"ID", "LPAREN">>), LAMBDA p2 :
    Then(Names(p2, "RPAREN", <<>>), LAMBDA params :
    Then(eat(params.parser, "RPAREN"), LAMBDA p3 :
    Then(eats(p3, IF Is(p3, "LBRACE") THEN <<"LBRACE", "RETURN">> ELSE <<"RETURN">>), LAMBDA p4 :
    Then(Rule("logical_expr", p4), LAMBDA body :
    Then(eats(body.parser, IF Is(p3, "LBRACE") THEN <<"SEMICOLON", "RBRACE">> ELSE <<>>),
         LAMBDA p5 :
         IF p5.exc # "none" THEN p5
         ELSE [p5 EXCEPT !.functions = (p1.current_token.value
                                        :> Function(params.node, body.node)) @@ @])))))))

\* Parser.struct_def
struct_def(p) ==
    Then(eat(p, "STRUCT"), LAMBDA p1 :
    Then(eats(p1, <<"ID", "LBRACE">>), LAMBDA p2 :
    Then(Names(p2, "RBRACE", <<>>), LAMBDA fields :
    Then(eat(fields.parser, "RBRACE"), LAMBDA p3 :
    Then(OptionalSemicolon(p3), LAMBDA p4 :
         IF p4.exc # "none" THEN p4
         ELSE [p4 EXCEPT !.structs = (p1.current_token.value :> StructDef(fields.node)) @@ @])))))

RECURSIVE block(_, _)

\* Parser.block
block(p, statements) ==
    IF p.exc # "none" \/ Is(p, "RBRACE") \/ Is(p, "EOF") THEN Built(p, BlockNode(statements))
    ELSE Then(Rule("statement", p), LAMBDA stmt :
              block(stmt.parser, IF stmt.node = <<>> THEN statements
                                 ELSE Append(statements, stmt.node[1])))

\* Parser.if_stmt
if_stmt(p) ==
    Then(eats(p, <<"IF", "LPAREN">>), LAMBDA p1 :
    Then(Rule("logical_expr", p1), LAMBDA condition :
    Then(eats(condition.parser, <<"RPAREN", "LBRACE">>), LAMBDA p2 :
    Then(block(p2, <<>>), LAMBDA then_block :
    Then(eats(then_block.parser, <<"RBRACE", "ELSE", "LBRACE">>), LAMBDA p3 :
    Then(block(p3, <<>>), LAMBDA else_block :
         Built(eat(else_block.parser, "RBRACE"),
               IfNode(condition.node, then_block.node, else_block.node))))))))

\* Parser.for_loop
for_loop(p) ==
    Then(eats(p, <<"FOR", "LPAREN">>), LAMBDA p1 :
    Then(Rule("assign_stmt", p1), LAMBDA init :
    Then(eat(init.parser, "SEMICOLON"), LAMBDA p2 :
    Then(Rule("logical_expr", p2), LAMBDA condition :
    Then(eat(condition.parser, "SEMICOLON"), LAMBDA p3 :
    Then(Rule("assign_stmt", p3), LAMBDA update :
    Then(eats(update.parser, <<"RPAREN", "LBRACE">>), LAMBDA p4 :
    Then(block(p4, <<>>), LAMBDA body :
         Built(eat(body.parser, "RBRACE"),
               ForNode(init.node, condition.node, update.node, body.node))))))))))

\* What Parser.statement returns: the parser after it and the statement,
\* <<>> where it returns None.
Stmt(r) == Then(r, LAMBDA made : Built(OptionalSemicolon(made.parser), <<made.node>>))

\* Parser.statement
statement(p) ==
    IF p.exc # "none" THEN Built(p, <<>>)
    ELSE IF Is(p, "DEF") THEN Built(OptionalSemicolon(Rule("function_def", p)), <<>>)
    ELSE IF Is(p, "STRUCT") THEN Built(OptionalSemicolon(Rule("struct_def", p)), <<>>)
    ELSE IF Is(p, "IF") THEN Stmt(Rule("if_stmt", p))
    ELSE IF Is(p, "FOR") THEN Stmt(Rule("for_loop", p))
    ELSE IF Is(p, "PRINT") THEN Stmt(Rule("print_stmt", p))
    ELSE IF Is(p, "ID")
    THEN LET first_id == p.current_token.value
         IN Then(eat(p, "ID"), LAMBDA p1 :
            IF Is(p1, "ID")
            THEN LET var_name == p1.current_token.value
                 IN Then(eat(p1, "ID"), LAMBDA p2 :
                    IF Is(p2, "ASSIGN")
                    THEN Then(eat(p2, "ASSIGN"), LAMBDA p3 :
                         Then(Rule("logical_expr", p3), LAMBDA value :
                              Stmt(Built(value.parser, AssignNode(var_name, value.node)))))
                    ELSE Built(ParserError(p2, "Expected '=' after '" \o first_id \o " "
                                               \o var_name \o "'"), <<>>))
            ELSE IF Is(p1, "ASSIGN")
            THEN Then(eat(p1, "ASSIGN"), LAMBDA p2 :
                 Then(Rule("logical_expr", p2), LAMBDA value :
                      Stmt(Built(value.parser, AssignNode(first_id, value.node)))))
            ELSE IF Is(p1, "LPAREN")
            THEN Then(Rule("Arguments", p1), LAMBDA a :
                      Stmt(Built(a.parser, FunctionCallNode(<<first_id>>, a.node))))
            ELSE IF Is(p1, "DOT")
            THEN Then(eat(p1, "DOT"), LAMBDA p2 :
                      Stmt(Built(eat(p2, "ID"), FieldAccessNode(first_id, p2.current_token.value))))
            ELSE Stmt(Built(p1, VarNode(first_id))))
    ELSE Then(Rule("logical_expr", p), LAMBDA e : Stmt(e))

Rule(name, p) ==
    CASE name = "atom" -> atom(p)
      [] name = "exponentiation" -> exponentiation(p)
      [] name = "factor" -> factor(p)
      [] name = "term" -> term(p)
      [] name = "expression" -> expression(p)
      [] name = "comparison" -> comparison(p)
      [] name = "logical_expr" -> logical_expr(p)
      [] name = "assign_stmt" -> assign_stmt(p)
      [] name = "print_stmt" -> print_stmt(p)
      [] name = "function_def" -> function_def(p)
      [] name = "struct_def" -> struct_def(p)
      [] name = "if_stmt" -> if_stmt(p)
      [] name = "for_loop" -> for_loop(p)
      [] name = "statement" -> statement(p)
      [] name = "Arguments" -> Arguments(p)

\* Parser.parse: the statements are kept in the parser with done set, or
\* exc where it raised.
RECURSIVE ParseLoop(_, _)
ParseLoop(p, statements) ==
    IF p.exc # "none" THEN p
    ELSE IF Is(p, "EOF") THEN [p EXCEPT !.done = TRUE, !.statements = statements]
    ELSE Then(Rule("statement", p), LAMBDA stmt :
         LET found == IF stmt.node = <<>> THEN statements ELSE Append(statements, stmt.node[1])
             p1 == stmt.parser
         IN IF Is(p1, "SEMICOLON")
            THEN Then(eat(p1, "SEMICOLON"), LAMBDA p2 :
                      IF Is(p2, "EOF") THEN [p2 EXCEPT !.done = TRUE, !.statements = found]
                      ELSE ParseLoop(p2, found))
            ELSE ParseLoop(p1, found))

\* The words of the source texts handed to the parser: names, the logical
\* operators, a comparison, a unary and binary operator and the exponent.
Words == <<
    <<"a">>, <<"b">>, <<"c">>, <<"o", "r">>, <<"a", "n", "d">>, <<"n", "o", "t">>,
    <<"<">>, <<"-">>, <<"^">>
>>
\* Number of words of the expression of a source text.
MaxWords == 5
WordLists(n) == UNION {[1..k -> 1..Len(Words)] : k \in 0..n}
\* The text "x = w1 w2 ... wn"
RECURSIVE Spaced(_)
Spaced(ws) == IF ws = <<>> THEN <<>> ELSE <<" ">> \o Words[ws[1]] \o Spaced(Tail(ws))
SourceText(ws) == <<"x", " ", "=">> \o Spaced(ws)

\* parser = Parser(lexer)
NewParser ==
    /\ ~parsed.made
    /\ parsed' = Parser(lexer)
    /\ lexer' = parsed'.lexer
    /\ UNCHANGED <<hvars, tvars, stream>>

\* statements = parser.parse()
parse ==
    /\ parsed.made
    /\ parsed.exc = "none"
    /\ ~parsed.done
    /\ parsed' = ParseLoop(parsed, <<>>)
    /\ lexer' = parsed'.lexer
    /\ UNCHANGED <<hvars, tvars, stream>>

\* ---------------------------------------------------------------- threads
\* One evaluation of a statement list seen at the grain of its threads: a
\* thread evaluates one statement of a block at a time on the shared
\* Interpreter, and a call that is a statement of its own is entered
\* (saved_vars, parameters) and left (self.variables = saved_vars) in
\* separate steps.  Anything inside a statement is evaluated in one step.

\* Number of blocks handed to execute_parallel.
MaxBlocks == 2

\* A frame of a thread: the statements being evaluated, the index of the
\* next one, the value of the last one, and for the body of a call the
\* saved_vars of the call.  kind is "program" for the statement loop of
\* main.py, "block" for a BlockNode and "call" for a function body.
Frame(kind, stmts, saved) ==
    [kind |-> kind, stmts |-> stmts, i |-> 1, result |-> NoneV, saved |-> saved]

\* A thread: its frames (innermost last), whether it has ended and how,
\* the pool worker it waits for (0 for none) and the workers it submitted.
\* assigned, lost and overlapped are observations: the addresses of the
\* cells made by the assignment statements of the thread, the names whose
\* cell, assigned by another thread, a restore of this thread dropped from
\* self.variables, and whether the thread took a step while a worker it
\* had submitted was still running.
Thread(frame) ==
    [frames |-> <<frame>>, done |-> FALSE, exc |-> "none", waiting |-> 0, pool |-> {},
     assigned |-> {}, lost |-> {}, overlapped |-> FALSE]

NoCall == [entry |-> "none", blocks |-> <<>>, tids |-> <<>>, joined |-> 0]
\* interpreter.evaluate(statement) for each statement of a program
EvaluateCall == [entry |-> "evaluate", blocks |-> <<>>, tids |-> <<>>, joined |-> 0]
\* ParallelExecutor(interpreter).execute_parallel(blocks)
ExecuteParallelCall(blocks) ==
    [entry |-> "execute_parallel", blocks |-> blocks, tids |-> <<>>, joined |-> 0]

Top(t) == threads[t].frames[Len(threads[t].frames)]
Running(t) == ~threads[t].done /\ threads[t].waiting = 0
AtStatement(t) == Running(t) /\ Top(t).i <= Len(Top(t).stmts)
Statement(t) == Top(t).stmts[Top(t).i]

\* The statement is a call of a defined function that is entered and left
\* in steps of its own.
IsCall(stmt) ==
    /\ stmt.k = "FunctionCallNode"
    /\ Len(stmt.fname) = 1
    /\ stmt.fname[1] \notin DOMAIN shared.structs
    /\ stmt.fname[1] \in DOMAIN shared.functions
    /\ Len(shared.functions[stmt.fname[1]].params) = Len(stmt.args)
    /\ shared.functions[stmt.fname[1]].body.k = "BlockNode"
    /\ EvalArgs(stmt.args, shared, MaxFuel).exc = "none"

\* The thread took a step: it overlapped a worker of its pool that has not
\* ended.
Stepped(th) == [th EXCEPT !.overlapped = @ \/ \E w \in th.pool : ~threads[w].done]

\* The frame after its current statement yielded value: the statement loop
\* of main.py goes on to the next statement, a block returns the first
\* value that is not None.
Advance(frame, value) ==
    IF frame.kind # "program" /\ value # NoneV
    THEN [frame EXCEPT !.i = Len(frame.stmts) + 1, !.result = value]
    ELSE [frame EXCEPT !.i = @ + 1]

SetTop(th, frame) == [th EXCEPT !.frames[Len(th.frames)] = frame]

\* A statement other than a call statement or a parallel statement is
\* evaluated; an exception ends the thread.
EvalStatement(t) ==
    /\ AtStatement(t)
    /\ ~IsCall(Statement(t))
    /\ Statement(t).k # "ParallelNode"
    /\ LET stmt == Statement(t)
           r == evaluate(stmt, shared, MaxFuel)
           th == Stepped(threads[t])
       IN /\ r.exc # "fuel"
          /\ shared' = Kept(r)
          /\ threads' =
                [threads EXCEPT ![t] =
                    IF r.exc # "none" THEN [th EXCEPT !.done = TRUE, !.exc = r.exc, !.frames = <<>>]
                    ELSE [SetTop(th, Advance(Top(t), r.result)) EXCEPT
                             !.assigned = IF stmt.k = "AssignNode"
                                          THEN @ \cup {r.variables[stmt.name]} ELSE @]]
    /\ UNCHANGED <<caller, hvars, fvars>>

\* A call statement is entered: the arguments are evaluated, saved_vars is
\* taken and the parameters are bound.
EnterCall(t) ==
    /\ AtStatement(t)
    /\ IsCall(Statement(t))
    /\ LET stmt == Statement(t)
           func == shared.functions[stmt.fname[1]]
           a == EvalArgs(stmt.args, shared, MaxFuel)
           s1 == BindParams(a, func.params, a.vals)
       IN /\ shared' = Kept(s1)
          /\ threads' = [threads EXCEPT ![t] =
                            [Stepped(@) EXCEPT !.frames = Append(@, Frame("call", func.body.statements,
                                                                        SaveVars(a)))]]
    /\ UNCHANGED <<caller, hvars, fvars>>

\* The names bound to a cell that a thread other than t assigned and that
\* are not bound to that cell in saved.
Dropped(t, saved) ==
    {n \in DOMAIN shared.variables :
        /\ \E u \in DOMAIN threads : u # t /\ shared.variables[n] \in threads[u].assigned
        /\ (n \notin DOMAIN saved \/ saved[n] # shared.variables[n])}

\* A block or function body is left: a function body restores saved_vars;
\* the value goes to the statement that was being evaluated, and a thread
\* that leaves its last frame ends.
LeaveFrame(t) ==
    /\ Running(t)
    /\ Top(t).i > Len(Top(t).stmts)
    /\ LET f == Top(t)
           th == Stepped(threads[t])
           rest == SubSeq(th.frames, 1, Len(th.frames) - 1)
       IN /\ shared' = IF f.kind = "call" THEN RestoreVars(shared, f.saved) ELSE shared
          /\ threads' =
                [threads EXCEPT ![t] =
                    [th EXCEPT !.lost = IF f.kind = "call" THEN @ \cup Dropped(t, f.saved) ELSE @,
                               !.done = rest = <<>>,
                               !.frames = IF rest = <<>> THEN rest
                                          ELSE [rest EXCEPT ![Len(rest)] = Advance(@, f.result)]]]
    /\ UNCHANGED <<caller, hvars, fvars>>

\* ParallelNode: pool.submit(executor.execute) starts a worker that
\* evaluates the block; the thread is then in the executor's __exit__.
Submit(t) ==
    /\ AtStatement(t)
    /\ Statement(t).k = "ParallelNode"
    /\ LET w == Len(threads) + 1
       IN threads' = Append([threads EXCEPT ![t] = [Stepped(@) EXCEPT !.waiting = w,
                                                                      !.pool = @ \cup {w}]],
                            Thread(Frame("block", Statement(t).block.statements, <<>>)))
    /\ UNCHANGED <<shared, caller, hvars, fvars>>

\* An executor whose __exit__ does not wait for the worker.
PoolWaits_NoWait(worker) == TRUE

\* ThreadPoolExecutor.__exit__ is shutdown(wait=True): it returns when the
\* worker has ended.
PoolWaits(worker) == worker.done

\* The with block is left and the parallel statement yields None.
PoolExit(t) ==
    /\ ~threads[t].done
    /\ threads[t].waiting # 0
    /\ PoolWaits(threads[threads[t].waiting])
    /\ threads' = [threads EXCEPT ![t] = [SetTop(@, Advance(Top(t), NoneV)) EXCEPT !.waiting = 0]]
    /\ UNCHANGED <<shared, caller, hvars, fvars>>

\* execute_parallel: "thread.start()" for the next block
Start ==
    /\ caller.entry = "execute_parallel"
    /\ Len(caller.tids) < Len(caller.blocks)
    /\ LET started == caller.blocks[Len(caller.tids) + 1]
       IN threads' = Append(threads, Thread(Frame("block", started.statements, <<>>)))
    /\ caller' = [caller EXCEPT !.tids = Append(@, Len(threads) + 1)]
    /\ UNCHANGED <<shared, hvars, fvars>>

\* execute_parallel: "thread.join()" for the next thread
Join ==
    /\ caller.entry = "execute_parallel"
    /\ Len(caller.tids) = Len(caller.blocks)
    /\ caller.joined < Len(caller.tids)
    /\ threads[caller.tids[caller.joined + 1]].done
    /\ caller' = [caller EXCEPT !.joined = @ + 1]
    /\ UNCHANGED <<shared, threads, hvars, fvars>>

\* Blocks and statements of the threaded programs.
ThreadBlocks == <<
    \* { x = 1; }
    Block(<<AssignNode("x", Num(1))>>),
    \* { setx(9); }
    Block(<<Call("setx", <<Num(9)>>)>>),
    \* { delx(); }
    Block(<<Call("delx", <<>>)>>),
    \* { delete(x); y = 3; }
    Block(<<DeleteNode("x"), AssignNode("y", Num(3))>>),
    \* { print(x); }
    Block(<<PrintNode(Var("x"))>>)
>>

ThreadStmts == <<
    AssignNode("x", Num(1)),
    PrintNode(Var("x")),
    Call("setx", <<Num(9)>>),
    DeleteNode("x")
>>

\* The index sequences of at most n blocks.
RECURSIVE BlockLists(_)
BlockLists(n) ==
    IF n = 0 THEN {<<>>}
    ELSE LET shorter == BlockLists(n - 1)
         IN shorter \cup {Append(p, i) : p \in {q \in shorter : Len(q) = n - 1},
                                         i \in 1..Len(ThreadBlocks)}

\* The interpreter as run_code sets it up for a program.
FreshInterpreter ==
    [NewInterpreter EXCEPT !.functions = FunctionsNoInput, !.structs = Structs]

ThreadInit ==
    /\ code = Program(<<>>, <<>>, <<>>)
    /\ interpreter_states = <<>>
    /\ response = NoResponse
    /\ observed = NoObservation("none", "")
    /\ requests = 0
    /\ history = <<>>
    /\ lexer = Lexer(<<>>)
    /\ stream = <<>>
    /\ parsed = NoParser
    /\ shared = FreshInterpreter
    /\ \/ \E a \in 1..Len(ThreadStmts), b \in 1..Len(ThreadBlocks), c \in 1..Len(ThreadStmts) :
             /\ caller = EvaluateCall
             /\ threads = <<Thread(Frame("program",
                                         <<ThreadStmts[a], ParallelNode(ThreadBlocks[b]), ThreadStmts[c]>>,
                                         <<>>))>>
       \/ \E p \in BlockLists(MaxBlocks) :
             /\ caller = ExecuteParallelCall([j \in 1..Len(p) |-> ThreadBlocks[p[j]]])
             /\ threads = <<>>

ThreadNext ==
    \/ \E t \in DOMAIN threads : EvalStatement(t)
    \/ \E t \in DOMAIN threads : EnterCall(t)
    \/ \E t \in DOMAIN threads : LeaveFrame(t)
    \/ \E t \in DOMAIN threads : Submit(t)
    \/ \E t \in DOMAIN threads : PoolExit(t)
    \/ Start
    \/ Join

ThreadSpec == ThreadInit /\ [][ThreadNext]_vars

Init ==
    /\ \/ \E t \in 1..Len(Tables), i \in 1..Len(Scenarios) : code = ScenarioProgram(t, i)
       \/ \E t \in 1..Len(Tables), p \in Composed(MaxStmts) : code = ComposedProgram(t, p)
       \/ \E o \in 1..3, a \in 1..Len(Operands), b \in 1..Len(Operands) :
             code = OperatorProgram(o, a, b)
    /\ interpreter_states = <<>>
    /\ response = NoResponse
    /\ observed = NoObservation("none", "")
    /\ requests = 0
    /\ history = <<>>
    /\ shared = NewInterpreter
    /\ threads = <<>>
    /\ caller = NoCall
    /\ lexer = Lexer(<<>>)
    /\ stream = <<>>
    /\ parsed = NoParser

Next ==
    \/ \E sid \in SessionIds, given \in CodeGiven : run_code(sid, given)
    \/ \E sid \in ClientIds, user_input \in Inputs : submit_input(sid, user_input)

Spec == Init /\ [][Next]_vars

\* A Lexer made for a source text and the calls made on it.
LexInit ==
    /\ \E text \in Texts(MaxLen) : lexer = Lexer(text)
    /\ stream = <<>>
    /\ parsed = NoParser
    /\ code = Program(<<>>, <<>>, <<>>)
    /\ interpreter_states = <<>>
    /\ response = NoResponse
    /\ observed = NoObservation("none", "")
    /\ requests = 0
    /\ history = <<>>
    /\ shared = NewInterpreter
    /\ threads = <<>>
    /\ caller = NoCall

LexNext == get_next_token

LexSpec == LexInit /\ [][LexNext]_vars

\* A Parser made for the Lexer of a source text, and its parse().
ParseInit ==
    /\ \E ws \in WordLists(MaxWords) : lexer = Lexer(SourceText(ws))
    /\ stream = <<>>
    /\ parsed = NoParser
    /\ code = Program(<<>>, <<>>, <<>>)
    /\ interpreter_states = <<>>
    /\ response = NoResponse
    /\ observed = NoObservation("none", "")
    /\ requests = 0
    /\ history = <<>>
    /\ shared = NewInterpreter
    /\ threads = <<>>
    /\ caller = NoCall

ParseNext == NewParser \/ parse

ParseSpec == ParseInit /\ [][ParseNext]_vars

\* ----------------------------------------------------------------- claims
Range(seq) == {seq[i] : i \in 1..Len(seq)}
LogHas(P(_)) == \E i \in 1..Len(observed.log) : P(observed.log[i])
LogAll(P(_)) == \A i \in 1..Len(observed.log) : P(observed.log[i])

\* C1: every function, method or lambda call that returns normally leaves
\* the set of variable names bound in vars exactly as it was before the call.
C1_NamesRestored ==
    LET Ok(e) == (e.ev = "call" /\ e.exit = "none") => DOMAIN e.after = DOMAIN e.before
    IN LogAll(Ok)

\* A call returned normally after its body had bound names that were not
\* bound before the call.
C1_Witness ==
    LET W(e) == /\ e.ev = "call"
                /\ e.exit = "none"
                /\ DOMAIN e.body_end # DOMAIN e.before
    IN LogHas(W)

\* C2: after a call returns normally every variable bound before the call
\* has the same value and the same deleted flag as before the call.
C2_NoMutationLeaks ==
    LET Ok(e) == (e.ev = "call" /\ e.exit = "none") =>
                     \A n \in DOMAIN e.before : n \in DOMAIN e.after /\ e.after[n] = e.before[n]
    IN LogAll(Ok)

\* C3: when the body of a call raises a runtime error or suspends with
\* InputRequired, vars is as it was at call entry.
C3_RestoredOnEveryExit ==
    LET Ok(e) == (e.ev = "call" /\ e.exit \in {"error", "input"}) => e.after = e.before
    IN LogAll(Ok)

\* C4: the body of a lambda sees every variable that was bound when the
\* lambda was constructed (other than its parameters) with the value and
\* deleted flag it had at construction.
C4_ClosureCapture ==
    LET Ok(e) == (e.ev = "call" /\ e.kind = "lambda") =>
                     \A n \in DOMAIN e.captured \ Range(e.params) :
                         n \in DOMAIN e.seen /\ e.seen[n] = e.captured[n]
    IN LogAll(Ok)

\* C5: a block that is left normally without evaluating a return statement
\* has evaluated every one of its statements.
C5_BlockRunsEveryStatement ==
    LET Ok(e) == (e.ev = "block" /\ e.exit = "none" /\ ~e.returned) => e.executed = e.stmts
    IN LogAll(Ok)

\* i = 0; while (i < 3) { print(i); i = i + 1; }
WhileScenario == Scenarios[4]

\* C6: once run has started the while statement of
\* "i = 0; while (i < 3) { print(i); i = i + 1; }", the lines printed are
\* 0.0, 1.0, 2.0 and the run is complete.
C6_WhilePrintsZeroToTwo ==
    (code.statements = WhileScenario /\ Len(observed.trace) = 2) =>
        /\ observed.printed = <<"0.0", "1.0", "2.0">>
        /\ Status(response) = "complete"

\* C7 as stated: a run of a program without input() answers complete.
C7_RunCompletes ==
    (~ProgramHasInput(code) /\ observed.handler = "run_code" /\ response # NoResponse) =>
        Status(response) = "complete"

\* C7 amended: a program without input() is never answered input_required
\* and never has a session stored.
C7_NeverSuspends ==
    ~ProgramHasInput(code) =>
        /\ Status(response) # "input_required"
        /\ interpreter_states = <<>>

\* A run of a program without input() has evaluated two or more statements
\* and answered complete.
C7_Witness ==
    /\ ~ProgramHasInput(code)
    /\ observed.handler = "run_code"
    /\ Len(observed.trace) >= 2
    /\ Status(response) = "complete"

\* C8: a request that suspends stores the index of the statement it
\* suspended in; submit_input starts at the stored index with the variables,
\* functions, structs and printed buffer the session stored, evaluates the
\* statements from there on in source order without going back, and has
\* evaluated the last statement when it answers complete.
C8_ResumesAtSuspendedStatement ==
    [][ LET tr == observed'.trace
            sid == observed'.sid
        IN /\ (observed'.handler = "submit_input" /\ observed'.found) =>
                  /\ tr # <<>>
                  /\ tr[1] = interpreter_states[sid].current_stmt
                  /\ observed'.entry = Preserved(interpreter_states[sid].interpreter)
                  /\ \A j \in 2..Len(tr) : tr[j] = tr[j - 1] + 1
                  /\ Status(response') = "complete" =>
                         tr[Len(tr)] = Len(interpreter_states[sid].statements) - 1
           /\ (observed'.handler # "none" /\ Status(response') = "input_required") =>
                  /\ sid \in DOMAIN interpreter_states'
                  /\ interpreter_states'[sid].current_stmt = tr[Len(tr)]
      ]_vars

\* submit_input resumed at a statement other than the first and went on to
\* later statements.
C8_Witness ==
    /\ observed.handler = "submit_input"
    /\ observed.found
    /\ Len(observed.trace) >= 2
    /\ observed.trace[1] > 0

\* C9: when a runtime error aborts a request after earlier statements have
\* produced output, the response carries that output.
C9_ErrorKeepsOutput ==
    ("error" \in DOMAIN response /\ observed.output # <<>>) =>
        /\ "output" \in DOMAIN response
        /\ response.output = JoinLines(observed.output)

\* C10: no read of a variable whose cell is marked deleted succeeds, be it
\* a variable reference, a field access, a method call or the call of a
\* lambda held in the variable.
C10_DeletedReadsFail ==
    LET Ok(e) == e.ev = "read" => ~e.deleted
    IN LogAll(Ok)

\* The positions of the log at which an InputNode was evaluated, and those
\* at which it returned a value.
InputEvents == {i \in 1..Len(observed.log) : observed.log[i].ev = "input"}
Consumed == {i \in InputEvents : observed.log[i].exit = "none"}

\* C11: an input() evaluated with no staged value raises InputRequired with
\* the line of its node and leaves every field of the interpreter as it
\* was; with a staged value it returns that value (as a number when it
\* parses as one) and leaves nothing staged.  A request consumes at most
\* the one value it was supplied with (none for run), and every input()
\* evaluated after the consuming one suspends.
C11_InputConsumesOnce ==
    /\ \A i \in InputEvents :
          LET e == observed.log[i]
          IN IF e.before.input_value = <<>>
             THEN /\ e.exit = "input"
                  /\ e.line = e.node_line
                  /\ e.after = e.before
             ELSE /\ e.exit = "none"
                  /\ e.after = [e.before EXCEPT !.input_value = <<>>]
                  /\ LET value == e.before.input_value[1]
                     IN e.value = IF IsNumeral(value) THEN FloatV(ParseFloat(value))
                                  ELSE StrV(value)
    /\ Cardinality(Consumed) <= IF observed.handler = "submit_input" THEN 1 ELSE 0
    /\ \A i \in Consumed, j \in InputEvents : j > i => observed.log[j].exit = "input"

\* A request evaluated two input() expressions: the first consumed the
\* supplied value, the second suspended, and the request was answered
\* input_required.
C11_Witness ==
    /\ \E i \in Consumed, j \in InputEvents : j > i
    /\ Status(response) = "input_required"

\* C12: a thread that has submitted the block of a parallel statement to
\* the pool takes no step while the worker is running: it stays in the
\* parallel statement until the worker has ended.
C12_ParallelWaitsForWorker ==
    \A t \in DOMAIN threads :
        /\ ~threads[t].overlapped
        /\ \A w \in threads[t].pool : ~threads[w].done => threads[t].waiting = w

\* A thread has evaluated a parallel statement, its worker has ended, and
\* the thread has gone on to evaluate the statement that follows it.
C12_Witness ==
    /\ caller.entry = "evaluate"
    /\ threads[1].done
    /\ threads[1].exc = "none"
    /\ threads[1].pool # {}
    /\ \A w \in threads[1].pool : threads[w].done

\* C13: no restore of saved_vars by a call of one block drops from vars a
\* cell that an assignment of another block made.
C13_NoLostAssignment ==
    \A t \in DOMAIN threads : threads[t].lost = {}

\* Every record instance in the value has the field names declared for its
\* type in structs, in declaration order.
RECURSIVE Conforms(_, _)
Conforms(v, structs) ==
    CASE v.t = "struct" ->
           /\ v.struct_name \in DOMAIN structs
           /\ v.names = structs[v.struct_name].fields
           /\ \A i \in 1..Len(v.vals) : Conforms(v.vals[i], structs)
      [] v.t = "list" -> \A i \in 1..Len(v.v) : Conforms(v.v[i], structs)
      [] OTHER -> TRUE

\* C14: when a request ends, every record instance held in a variable
\* (directly, in an array or in a field) has exactly the field names that
\* the records table then declares for its type, in declaration order.
C14_InstancesMatchDeclaration ==
    \A n \in DOMAIN observed.final.variables :
        Conforms(observed.final.variables[n].value, observed.final.structs)

ConstructEvents == {i \in 1..Len(observed.log) : observed.log[i].ev = "construct"}

\* C15: a construction with no argument for a type with n > 0 fields yields
\* a record of n null fields; one with k arguments, k neither 0 nor n, is a
\* runtime error and creates no record; one with n arguments yields a
\* record whose field i holds argument i.
C15_ConstructionByArity ==
    \A j \in ConstructEvents :
        LET e == observed.log[j]
            n == Len(e.fields)
            k == Len(e.args)
        IN n > 0 =>
             IF k = 0
             THEN /\ e.exit = "none"
                  /\ e.value.t = "struct"
                  /\ e.value.names = e.fields
                  /\ e.value.vals = [i \in 1..n |-> NoneV]
             ELSE IF k # n
             THEN e.exit = "error" /\ e.created = 0
             ELSE /\ e.exit = "none"
                  /\ e.value.t = "struct"
                  /\ e.value.names = e.fields
                  /\ e.value.vals = e.args

OpEvents == {i \in 1..Len(observed.log) : observed.log[i].ev = "op"}

\* C16: + yields a value exactly when both operands are Numbers or both are
\* Strings; with an operand of any other kind (Bool, Null, Array, Record,
\* Lambda) it raises a type error.
C16_PlusTypeChecks ==
    \A i \in OpEvents :
        LET e == observed.log[i]
        IN (e.node = "BinOpNode" /\ e.op = "PLUS") =>
               IF \/ e.left.t = "float" /\ e.right.t = "float"
                  \/ e.left.t = "str" /\ e.right.t = "str"
               THEN e.exit = "none"
               ELSE e.exit = "error"

\* Equality by value: records by type name and field values, arrays by
\* length and elements.
RECURSIVE ByValue(_, _)
ByValue(a, b) ==
    CASE a.t = "struct" /\ b.t = "struct" ->
           /\ a.struct_name = b.struct_name
           /\ a.names = b.names
           /\ \A i \in 1..Len(a.vals) : ByValue(a.vals[i], b.vals[i])
      [] a.t = "list" /\ b.t = "list" ->
           /\ Len(a.v) = Len(b.v)
           /\ \A i \in 1..Len(a.v) : ByValue(a.v[i], b.v[i])
      [] a.t = b.t /\ a.t \in {"float", "str", "bool"} -> a.v = b.v
      [] a.t = "none" /\ b.t = "none" -> TRUE
      [] a.t = "lambda" /\ b.t = "lambda" -> a.id = b.id
      [] OTHER -> FALSE

\* C17: on two records and on two arrays == yields whether they are equal
\* by value, and != yields the opposite.
C17_EqualityByValue ==
    \A i \in OpEvents :
        LET e == observed.log[i]
        IN (/\ e.node = "CompareNode"
            /\ e.op \in {"EQUAL", "NOT_EQUAL"}
            /\ e.left.t = e.right.t
            /\ e.left.t \in {"struct", "list"}) =>
               e.value = BoolV(ByValue(e.left, e.right) <=> e.op = "EQUAL")

CondEvents == {i \in 1..Len(observed.log) : observed.log[i].ev = "cond"}

\* C18: when the condition of an if, while or for statement evaluates to a
\* value that is not a Bool, the statement raises a runtime error at the
\* test (before a branch, the body or the update is evaluated).
C18_ConditionMustBeBool ==
    \A i \in CondEvents :
        ~IsBool(observed.log[i].value) => observed.log[i].exit = "error"

LoopEvents == {i \in 1..Len(observed.log) : observed.log[i].ev = "loop"}

\* C19: when the body of a for or while loop in the body of a call is left
\* by a return statement, the loop stops there: no update, no further test
\* of the condition, no further iteration.
C19_ReturnStopsLoop ==
    \A i \in LoopEvents :
        LET e == observed.log[i]
        IN (e.in_call /\ e.body_returned) => e.stopped

ResolveEvents ==
    {i \in 1..Len(observed.log) :
        observed.log[i].ev = "resolve" /\ Len(observed.log[i].fname) = 1}

\* C20: the name of a call name(args) is resolved to a record type if it is
\* one, else to a function if it is one, else to a variable holding a
\* lambda if it is one, else the call raises "Undefined function 'name'".
C20_ResolutionOrder ==
    \A i \in ResolveEvents :
        LET e == observed.log[i]
        IN /\ e.kind = IF e.is_struct THEN "struct"
                       ELSE IF e.is_function THEN "function"
                       ELSE IF e.is_lambda THEN "lambda"
                       ELSE "undefined"
           /\ e.kind = "undefined" <=>
                 /\ e.exit = "error"
                 /\ e.msg = "Undefined function '" \o e.fname[1] \o "' at line 1"

\* A request has called a name that is both a record type and a function,
\* the call has constructed a record, and the request is complete.
C20_Witness ==
    /\ \E i \in ResolveEvents :
          /\ observed.log[i].is_struct
          /\ observed.log[i].is_function
          /\ observed.log[i].kind = "struct"
    /\ \E j \in ConstructEvents : observed.log[j].exit = "none"
    /\ Status(response) = "complete"

MethodEvents == {i \in 1..Len(observed.log) : observed.log[i].ev = "method"}
\* The receiver of a method call holds a record when the call is made.
IsRecordReceiver(e) ==
    /\ e.obj_name \in DOMAIN e.held
    /\ e.held[e.obj_name].value.t = "struct"
\* '<type of the record held by obj>.m'
MethodKey(e) == e.held[e.obj_name].value.struct_name \o "." \o e.method_name

\* C21: a method call obj.m(args) whose receiver holds a record of a type
\* that has a method m of that arity runs '<type of the record>.m', and
\* its body starts, and ends, with obj bound to the receiver and every
\* parameter of another name bound to its argument; a call whose receiver
\* holds no record, or whose record type has no method m, raises an error,
\* binds nothing and enters no body.
C21_MethodOfReceiver ==
    \A i \in MethodEvents :
        LET e == observed.log[i]
            receiver == e.held[e.obj_name].value
        IN IF IsRecordReceiver(e) /\ MethodKey(e) \in DOMAIN e.functions
           THEN LET f == e.functions[MethodKey(e)]
                IN Len(f.params) = Len(e.args) =>
                      /\ e.func = <<f>>
                      /\ i > 1
                      /\ observed.log[i - 1].ev = "call"
                      /\ observed.log[i - 1].kind = "method"
                      /\ observed.log[i - 1].seen[e.obj_name] = [value |-> receiver, deleted |-> FALSE]
                      /\ observed.log[i - 1].body_end[e.obj_name].value = receiver
                      /\ \A k \in 1..Len(f.params) :
                            f.params[k] # e.obj_name =>
                               observed.log[i - 1].seen[f.params[k]].value = e.args[k]
           ELSE /\ e.exit = "error"
                /\ e.func = <<>>
                /\ e.added = 0
                /\ e.after = e.held

\* A request has called a method one of whose parameters has the name of
\* the receiver, the body has run and returned, and the request is
\* complete.
C21_Witness ==
    /\ \E i \in MethodEvents :
          /\ observed.log[i].func # <<>>
          /\ observed.log[i].obj_name \in Range(observed.log[i].func[1].params)
          /\ observed.log[i].exit = "none"
    /\ Status(response) = "complete"

Tokens == {i \in 1..Len(stream) : stream[i].exc = "none"}
NumberTokens == {i \in Tokens : stream[i].token[1].type = "NUMBER"}

\* C22: every NUMBER token has a non-negative value: the '-' before a
\* digit is a MINUS token of its own.
C22_NoSignFolding ==
    \A i \in NumberTokens : ~IsNegative(stream[i].token[1].value)

\* The number of newlines among the first n characters of a text, and the
\* position of the last of them (0 where there is none).
Newlines(text, n) == Cardinality({k \in 1..n : text[k] = "\n"})
LastNewline(text, n) ==
    IF \E k \in 1..n : text[k] = "\n"
    THEN CHOOSE k \in 1..n : text[k] = "\n" /\ \A j \in (k + 1)..n : text[j] # "\n"
    ELSE 0

\* C23: the lines of the tokens returned by successive get_next_token
\* calls never decrease; the line of the lexer is one more than the number
\* of newlines it has consumed and its column one more than the number of
\* characters consumed after the last of them (one newline, one line; the
\* column is 1 right after a newline); after a call has returned EOF every
\* later call returns EOF.
C23_PositionsMonotonic ==
    /\ \A i, j \in Tokens : i < j => stream[i].token[1].line <= stream[j].token[1].line
    /\ lexer.line = 1 + Newlines(lexer.text, lexer.pos)
    /\ lexer.column = lexer.pos - LastNewline(lexer.text, lexer.pos) + 1
    /\ \A i \in Tokens : \A j \in (i + 1)..Len(stream) :
          stream[i].token[1].type = "EOF" =>
             j \in Tokens /\ stream[j].token[1].type = "EOF"

\* The lexer has consumed a newline and then another character, has
\* returned a token of line 1 and later one of line 2, and has returned
\* EOF twice.
C23_Witness ==
    /\ lexer.line = 2
    /\ lexer.column > 1
    /\ \E i, j \in Tokens :
          /\ i < j
          /\ stream[i].token[1].line = 1
          /\ stream[j].token[1].line = 2
          /\ stream[j].token[1].type # "EOF"
    /\ \E i, j \in Tokens :
          i < j /\ stream[i].token[1].type = "EOF" /\ stream[j].token[1].type = "EOF"

\* The expression of the statement x = <expression> that parse() returned.
ParsedExpressions ==
    IF parsed.made /\ parsed.done
    THEN {i \in 1..Len(parsed.statements) : parsed.statements[i].k = "AssignNode"}
    ELSE {}
IsLogical(node, op) == node.k = "LogicalNode" /\ node.op = op

\* In an expression written without parentheses: no operand of 'and' is
\* an 'or', no operand of 'not' is an 'and' or an 'or', and no operand of
\* a comparison is an 'and', an 'or' or a 'not'.
RECURSIVE LogicalPrecedence(_)
LogicalPrecedence(node) ==
    CASE node.k = "LogicalNode" ->
           /\ node.op = "AND" => ~IsLogical(node.left, "OR") /\ ~IsLogical(node.right, "OR")
           /\ LogicalPrecedence(node.left)
           /\ LogicalPrecedence(node.right)
      [] node.k = "NotNode" ->
           /\ node.node.k # "LogicalNode"
           /\ LogicalPrecedence(node.node)
      [] node.k = "CompareNode" ->
           /\ node.left.k \notin {"LogicalNode", "NotNode"}
           /\ node.right.k \notin {"LogicalNode", "NotNode"}
           /\ LogicalPrecedence(node.left)
           /\ LogicalPrecedence(node.right)
      [] node.k = "BinOpNode" -> LogicalPrecedence(node.left) /\ LogicalPrecedence(node.right)
      [] node.k = "UnaryOpNode" -> LogicalPrecedence(node.operand)
      [] OTHER -> TRUE

\* C24: every expression without parentheses is parsed with the
\* precedence or < and < not < comparison: 'a or b and c' as
\* a or (b and c), 'not a and b' as (not a) and b.
C24_LogicalPrecedence ==
    \A i \in ParsedExpressions : LogicalPrecedence(parsed.statements[i].value)

IsExponent(node) == node.k = "BinOpNode" /\ node.op = "EXPONENTIATION"

\* In an expression written without parentheses: no operand of a unary
\* operator is a '^', the left operand of '^' is no binary operation and
\* its right operand is no binary operation but a '^'.
RECURSIVE ExponentPrecedence(_)
ExponentPrecedence(node) ==
    CASE node.k = "UnaryOpNode" ->
           /\ ~IsExponent(node.operand)
           /\ ExponentPrecedence(node.operand)
      [] node.k = "BinOpNode" ->
           /\ IsExponent(node) =>
                 /\ node.left.k # "BinOpNode"
                 /\ node.right.k = "BinOpNode" => IsExponent(node.right)
           /\ ExponentPrecedence(node.left)
           /\ ExponentPrecedence(node.right)
      [] node.k \in {"LogicalNode", "CompareNode"} ->
           ExponentPrecedence(node.left) /\ ExponentPrecedence(node.right)
      [] node.k = "NotNode" -> ExponentPrecedence(node.node)
      [] OTHER -> TRUE

\* C25: every expression without parentheses is parsed with unary + and -
\* binding tighter than '^' and with '^' associating to the right:
\* '-a ^ b' as (-a) ^ b, 'a ^ b ^ c' as a ^ (b ^ c).
C25_UnaryAndExponent ==
    \A i \in ParsedExpressions : ExponentPrecedence(parsed.statements[i].value)

\* ---------------------------------------------------------------------
\* The last request is a run of the empty program: it came with the empty
\* source text, or its source text holds no statement.
EmptyProgramRun ==
    observed.handler = "run_code" /\ (observed.empty_code \/ code.statements = <<>>)

\* The last request is a run of the program that is one for loop with an
\* empty body.
EmptyForRun ==
    observed.handler = "run_code" /\ ~observed.empty_code /\ code.statements = <<EmptyFor>>

\* C26: running the empty program returns status complete with no output,
\* it is not rejected as an error; and a for loop with an empty body
\* terminates once its condition becomes false, so that the run completes.
C26_EmptyProgramCompletes ==
    /\ EmptyProgramRun => Status(response) = "complete" /\ observed.output = <<>>
    /\ EmptyForRun => Status(response) = "complete"

\* ---------------------------------------------------------------------
\* history is one session without an error: a run_code that made the
\* session, then only submit_input requests of the same session id, and no
\* response is an error.
OneSession ==
    /\ history # <<>>
    /\ history[1].handler = "run_code"
    /\ \A i \in 2..Len(history) :
           history[i].handler = "submit_input" /\ history[i].sid = history[1].sid
    /\ \A i \in DOMAIN history : history[i].status # "error"

\* The output lists of the first n responses of history, concatenated.
RECURSIVE Outputs(_)
Outputs(n) == IF n = 0 THEN <<>> ELSE Outputs(n - 1) \o history[n].output

\* What the statement evaluations that returned during the first n requests
\* of history produced, in execution order.
RECURSIVE Performed(_)
Performed(n) == IF n = 0 THEN <<>> ELSE Performed(n - 1) \o history[n].performed

\* C27: in a session of a run and the supply_input calls that follow it, the
\* output lists of the responses, concatenated, hold the value of each print
\* the program's statements performed exactly once and in execution order,
\* the prints made earlier in a statement that then suspended on input()
\* included.
C27_OutputOncePerPrint ==
    OneSession => Outputs(Len(history)) = Performed(Len(history))

\* ---------------------------------------------------------------------
\* The parallel statements evaluated for the last request.
ParallelEvents == {i \in DOMAIN observed.log : observed.log[i].ev = "parallel"}

\* C28: a runtime error raised while the block of a parallel statement is
\* evaluated aborts the top-level step with that error, and an input()
\* evaluated in the block with no staged value suspends the session; neither
\* is discarded with the parallel statement yielding null.
C28_ParallelPropagates ==
    \A i \in ParallelEvents :
        LET e == observed.log[i]
        IN /\ e.worker = "error" =>
                  /\ Status(response) = "error"
                  /\ response.error = e.msg
           /\ e.worker = "input" =>
                  /\ Status(response) = "input_required"
                  /\ observed.sid \in DOMAIN interpreter_states

\* ---------------------------------------------------------------------
\* The number of input() expressions in the source of a node.
RECURSIVE CountInput(_)
RECURSIVE CountInputs(_)
CountInput(node) == IF node.k = "InputNode" THEN 1 ELSE CountInputs(Children(node))
CountInputs(nodes) ==
    IF nodes = <<>> THEN 0 ELSE CountInput(Head(nodes)) + CountInputs(Tail(nodes))

\* A statement whose evaluation evaluates each of its expressions at most
\* once: no loop and no call in it, so that it reaches input() at most
\* CountInput times.
RECURSIVE StraightLine(_)
StraightLine(node) ==
    /\ node.k \notin {"ForNode", "WhileNode", "FunctionCallNode",
                      "LambdaNode", "FunctionDefNode"}
    /\ \A i \in 1..Len(Children(node)) : StraightLine(Children(node)[i])

\* The requests of history answered input_required with the session
\* suspended at statement k (counted from 0).
SuspendedAt(k) ==
    {i \in DOMAIN history : history[i].status = "input_required" /\ history[i].current_stmt = k}

\* C29: in a session of a run and the supply_input calls that follow it, a
\* statement that reaches input() n times is suspended at most n times: after
\* n supply_input calls it has completed and the session has moved on.
C29_ResumeProgress ==
    OneSession =>
        \A k \in 0..(Len(code.statements) - 1) :
            StraightLine(code.statements[k + 1]) =>
                Cardinality(SuspendedAt(k)) <= CountInput(code.statements[k + 1])

\* ---------------------------------------------------------------------
\* The request served by the step is answered, for the session id sid.
Answers(sid) ==
    /\ requests' = requests + 1
    /\ observed'.sid = sid
    /\ response' # NoResponse

\* C30: a session id is in interpreter_states exactly when the most recent
\* response for that session was input_required: after a complete or an
\* error response the session is removed, and a request leaves the other
\* sessions as they are.  A supply_input for an id that is not stored is
\* answered 'Invalid session ID' and creates or changes no session.
C30_SessionLifecycle ==
    [][\A sid \in ClientIds :
           /\ Answers(sid) =>
                  (sid \in DOMAIN interpreter_states' <=> Status(response') = "input_required")
           /\ (requests' = requests + 1 /\ observed'.sid # sid) =>
                  (sid \in DOMAIN interpreter_states' <=> sid \in DOMAIN interpreter_states)
           /\ (Answers(sid) /\ observed'.handler = "submit_input"
                             /\ sid \notin DOMAIN interpreter_states) =>
                  /\ response' = InvalidSession
                  /\ interpreter_states' = interpreter_states]_vars

====
